---- MODULE Spec2Model ----
(***************************************************************************)
(* A model of the streaming layer of tanstack-ai:                          *)
(*                                                                         *)
(*   SpecAdapter  GroqTextAdapter.chatStream / processGroqStreamChunks     *)
(*                (packages/typescript/ai-groq/src/adapters/text.ts): the  *)
(*                vendor chunk stream is folded into AG-UI stream events.  *)
(*   SpecClient   ChatClient (packages/typescript/ai-client/src/           *)
(*                chat-client.ts): messages, loading flag, the streams it  *)
(*                opens and the automatic continuation after tool results. *)
(*   SpecLoop     the agent loop behind chat({agentLoopStrategy}): its     *)
(*                code is not among the sources, so it follows the         *)
(*                specification's state machine (section 4.3).             *)
(*   SpecReducer  ChatClient again, one stream at a time, with the tool    *)
(*                results that the stream reports (onToolResultStateChange) *)
(*   SpecProviders  the chatStream of every provider: the Groq adapter, or *)
(*                AnthropicAdapter.chatStream, OpenAIAdapter.chatStream    *)
(*                and convertLegacyStream, which yield the legacy          *)
(*                content / tool_call / done / error chunks.               *)
(*   SpecResponse  streamToResponse (packages/ai/src/stream-utils.ts): a   *)
(*                chunk stream is written as Server-Sent-Events records.   *)
(*   SpecDevtools  the devtools store (packages/typescript/ai-devtools/src/ *)
(*                store/ai-store.ts) listening to the events of one        *)
(*                ChatClient and of the server stream of its run.          *)
(*                                                                         *)
(* Strings are sequences of one-character strings, so that concatenation   *)
(* of deltas is real concatenation.                                        *)
(***************************************************************************)
EXTENDS Integers, Sequences, FiniteSets, TLC

VARIABLES
    \* ---- GroqTextAdapter.chatStream ----
    adapterPc,                  \* "create" | "stream" | "done" | "thrown"
    hasEmittedRunStarted,       \* aguiState.hasEmittedRunStarted
    accumulatedContent,         \* processGroqStreamChunks: accumulatedContent
    hasEmittedTextMessageStart, \* processGroqStreamChunks: hasEmittedTextMessageStart
    toolCallsInProgress,        \* the Map<index, {id,name,arguments,started}>, in insertion order
    events,                     \* every StreamChunk the generator has yielded, in order
    chunksRead,                 \* vendor chunks consumed so far
    chunk,                      \* the chunk the for-await loop holds
    abortSignal,                \* the caller's cancellation token and when it was cancelled
    \* ---- ChatClient ----
    messages,                   \* ChatClient.messages: UIMessage[]
    isLoading,                  \* ChatClient.isLoading
    error,                      \* ChatClient.error: "undefined" or the error's name
    onToolCall,                 \* whether options.onToolCall was given
    streams,                    \* the calls of append / continueFlow, each with its stream
    connectCalls,               \* the calls of connection.connect, by the caller ("append" | "continue")
    toolExecs,                  \* the onToolCall promises in flight, by toolCallId
    cancelled,                  \* stop() was called and no message was sent since
    \* ---- agent loop ----
    loopState,                  \* Idle | Streaming | Resolving | Stopped | Errored | Cancelled | BudgetExceeded
    iteration,                  \* AgentLoopState.iteration
    history,                    \* AgentLoopState.messages
    maxIterations,              \* the strategy: maxIterations(n)
    adapterInvocations,         \* how often the provider stream adapter was invoked
    calls,                      \* the tool calls of the latest assistant message
    \* ---- the chatStream of the other providers ----
    legacyKind,                 \* "anthropic" | "openai" | "convert" (convertLegacyStream)
    legacyPc,                   \* "off" | "create" | "stream" | "done" | "thrown"
    legacyAccumulated,          \* accumulatedContent
    toolCallsMap,               \* Anthropic: toolCallsMap, in insertion order
    legacyOut,                  \* every StreamChunk the generator has yielded, in order
    legacyRead,                 \* vendor events consumed so far
    \* ---- streamToResponse ----
    controller,                 \* the ReadableStream's controller: "off" | "open" | "closed" | "errored"
    sourceChunks,               \* the StreamChunks the source has yielded, in order
    enqueued,                   \* the records passed to controller.enqueue, in order
    \* ---- the devtools store ----
    conversationStatus,         \* state.conversations[clientId].status, "none" while it is absent
    streamLinked,               \* streamToConversation maps the run's stream to the client
    emitted,                    \* every event passed to aiEventClient.emit, in order
    runPc,                      \* the client seen by the store: "none" | "idle" | "append"
    serverPc                    \* the run's server stream: "none" | "started" | "errored" | "ended"

adapterVars == <<adapterPc, hasEmittedRunStarted, accumulatedContent,
                 hasEmittedTextMessageStart, toolCallsInProgress, events,
                 chunksRead, chunk, abortSignal>>

clientVars == <<messages, isLoading, error, onToolCall, streams, connectCalls,
                toolExecs, cancelled>>

loopVars == <<loopState, iteration, history, maxIterations, adapterInvocations, calls>>

legacyVars == <<legacyKind, legacyPc, legacyAccumulated, toolCallsMap, legacyOut,
                legacyRead>>

responseVars == <<controller, sourceChunks, enqueued>>

devtoolsVars == <<conversationStatus, streamLinked, emitted, runPc, serverPc>>

vars == <<adapterVars, clientVars, loopVars, legacyVars, responseVars, devtoolsVars>>

notAdapterVars == <<clientVars, loopVars, legacyVars, responseVars, devtoolsVars>>
notClientVars == <<adapterVars, loopVars, legacyVars, responseVars, devtoolsVars>>
notLoopVars == <<adapterVars, clientVars, legacyVars, responseVars, devtoolsVars>>
notLegacyVars == <<adapterVars, clientVars, loopVars, responseVars, devtoolsVars>>
notResponseVars == <<adapterVars, clientVars, loopVars, legacyVars, devtoolsVars>>
notDevtoolsVars == <<adapterVars, loopVars, legacyVars, responseVars>>

(***************************************************************************)
(* Bounds                                                                  *)
(***************************************************************************)
MaxChunks == 3          \* vendor chunks per stream
MaxStreams == 2         \* calls of append / continueFlow per client
MaxToolCalls == 2       \* tool calls per conversation
MaxIterations == 3      \* the largest maxIterations(n) tried
MaxTurnCalls == 2       \* tool calls the model requests in one turn
MaxVendorEvents == 3    \* vendor events per stream of the other providers
MaxSourceChunks == 3    \* chunks of the stream handed to streamToResponse
MaxEmitted == 14        \* events the devtools store receives

(***************************************************************************)
(* Vendor input                                                            *)
(***************************************************************************)
\* The tool-call indices a vendor stream uses.  The vendor gives each index
\* one id and one name; a delta may carry them or leave them out ("").
ToolIndices == {0, 1}
VendorId(index) == IF index = 0 THEN "call_0" ELSE "call_1"
VendorName(index) == IF index = 0 THEN "lookup" ELSE "search"

\* Fragments of a JSON argument string.  "a" stands for the member text
\* "a":1 , so that  { a }  is the text {"a":1}.
NoArgs == << >>
ArgFragments == { NoArgs, <<"{">>, <<"a", "}">> }

NoToolCalls == << >>
NoContent == << >>
NoFinish == "null"
FinishReasons == {"stop", "length", "content_filter", "tool_calls"}

ToolCallDeltas ==
    { [index |-> i, id |-> id, name |-> nm, arguments |-> a] :
        i \in ToolIndices, id \in {"", "call"}, nm \in {"", "fn"}, a \in ArgFragments }

\* One delta as the vendor sends it: the marker of "id present" / "name
\* present" is replaced by the id and name of that index.
VendorDelta(d) ==
    [index |-> d.index,
     id |-> IF d.id = "" THEN "" ELSE VendorId(d.index),
     name |-> IF d.name = "" THEN "" ELSE VendorName(d.index),
     arguments |-> d.arguments]

Chunk(hasChoice, content, toolCalls, finish) ==
    [hasChoice |-> hasChoice, content |-> content,
     tool_calls |-> toolCalls, finish_reason |-> finish]

\* The chunks a vendor stream is made of: a chunk without choices (the usage
\* chunk), a content delta, one tool-call delta, a finish chunk, and a content
\* delta that also carries the finish reason.
VendorChunks ==
    { Chunk(FALSE, NoContent, NoToolCalls, NoFinish) }
    \cup { Chunk(TRUE, <<"x">>, NoToolCalls, NoFinish) }
    \cup { Chunk(TRUE, NoContent, <<VendorDelta(d)>>, NoFinish) : d \in ToolCallDeltas }
    \cup { Chunk(TRUE, NoContent, NoToolCalls, f) : f \in FinishReasons }
    \cup { Chunk(TRUE, <<"x">>, NoToolCalls, "stop") }

(***************************************************************************)
(* JSON.parse on the argument alphabet: the only texts that parse are {}   *)
(* and {"a":1}; the value is the set of keys of the object.                *)
(***************************************************************************)
JSONParse(s) ==
    IF s = <<"{", "}">> THEN [ok |-> TRUE, value |-> {}]
    ELSE IF s = <<"{", "a", "}">> THEN [ok |-> TRUE, value |-> {"a"}]
    ELSE [ok |-> FALSE, value |-> {}]

\* mutant of ParsedInput: the SyntaxError of JSON.parse is not caught
ParsedInput_NoCatch(arguments) ==
    IF arguments = << >> THEN {}
    ELSE IF JSONParse(arguments).ok THEN JSONParse(arguments).value ELSE {"SyntaxError"}

\* text.ts 315-322: parsedInput = arguments ? JSON.parse(arguments) : {}, {} on a throw
ParsedInput(arguments) ==
    IF arguments = << >> THEN {}
    ELSE IF JSONParse(arguments).ok THEN JSONParse(arguments).value ELSE {}

(***************************************************************************)
(* processGroqStreamChunks, one chunk                                      *)
(***************************************************************************)
HasIndex(tcs, index) == \E k \in 1..Len(tcs) : tcs[k].index = index
PosOf(tcs, index) == CHOOSE k \in 1..Len(tcs) : tcs[k].index = index

\* text.ts 222-230
EmitRunStarted(st) ==
    IF ~st.hasEmittedRunStarted
    THEN [st EXCEPT !.hasEmittedRunStarted = TRUE,
                    !.events = Append(@, [type |-> "RUN_STARTED"])]
    ELSE st

\* mutant of ProcessContent: content carries the delta, not the accumulation
ProcessContent_DeltaOnly(st, deltaContent) ==
    IF deltaContent # NoContent
    THEN [st EXCEPT !.hasEmittedTextMessageStart = TRUE,
                    !.accumulatedContent = @ \o deltaContent,
                    !.events = @ \o (IF ~st.hasEmittedTextMessageStart
                                     THEN <<[type |-> "TEXT_MESSAGE_START"]>> ELSE << >>)
                                \o <<[type |-> "TEXT_MESSAGE_CONTENT",
                                      delta |-> deltaContent, content |-> deltaContent]>>]
    ELSE st

\* mutant of ProcessContent: TEXT_MESSAGE_START is yielded with every delta
ProcessContent_StartEveryDelta(st, deltaContent) ==
    IF deltaContent # NoContent
    THEN [st EXCEPT !.hasEmittedTextMessageStart = TRUE,
                    !.accumulatedContent = @ \o deltaContent,
                    !.events = @ \o <<[type |-> "TEXT_MESSAGE_START"],
                                      [type |-> "TEXT_MESSAGE_CONTENT",
                                       delta |-> deltaContent,
                                       content |-> st.accumulatedContent \o deltaContent]>>]
    ELSE st

\* text.ts 236-258
ProcessContent(st, deltaContent) ==
    IF deltaContent # NoContent
    THEN LET started == IF ~st.hasEmittedTextMessageStart
                        THEN <<[type |-> "TEXT_MESSAGE_START"]>> ELSE << >>
             acc == st.accumulatedContent \o deltaContent
         IN [st EXCEPT !.hasEmittedTextMessageStart = TRUE,
                       !.accumulatedContent = acc,
                       !.events = @ \o started \o
                           <<[type |-> "TEXT_MESSAGE_CONTENT",
                              delta |-> deltaContent, content |-> acc]>>]
    ELSE st

\* text.ts 297: args are yielded only for a call that has started
ArgsEvent(toolCall, d) ==
    IF d.arguments # NoArgs /\ toolCall.started
    THEN <<[type |-> "TOOL_CALL_ARGS", toolCallId |-> toolCall.id,
            delta |-> d.arguments]>>
    ELSE << >>

\* mutant of StartDue: the start does not wait for the name
StartDue_IgnoresName(toolCall) == toolCall.id # "" /\ ~toolCall.started

\* text.ts 285: when TOOL_CALL_START is due
StartDue(toolCall) == toolCall.id # "" /\ toolCall.name # "" /\ ~toolCall.started

\* text.ts 262-305, the body of the loop over delta.tool_calls
ProcessToolCallDelta(st, d) ==
    LET tcs0 == st.toolCallsInProgress
        tcs1 == IF HasIndex(tcs0, d.index) THEN tcs0
                ELSE Append(tcs0, [index |-> d.index, id |-> d.id, name |-> d.name,
                                   arguments |-> NoArgs, started |-> FALSE])
        k == PosOf(tcs1, d.index)
        tc1 == [tcs1[k] EXCEPT !.id = IF d.id # "" THEN d.id ELSE @,
                               !.name = IF d.name # "" THEN d.name ELSE @,
                               !.arguments = @ \o d.arguments]
        start == StartDue(tc1)
        tc2 == [tc1 EXCEPT !.started = @ \/ start]
        startEvent == IF start
                      THEN <<[type |-> "TOOL_CALL_START", toolCallId |-> tc2.id,
                              toolName |-> tc2.name, index |-> d.index]>>
                      ELSE << >>
    IN [st EXCEPT !.toolCallsInProgress = [tcs1 EXCEPT ![k] = tc2],
                  !.events = @ \o startEvent \o ArgsEvent(tc2, d)]

RECURSIVE ProcessToolCalls(_, _)
\* text.ts 260-307
ProcessToolCalls(st, deltas) ==
    IF deltas = << >> THEN st
    ELSE ProcessToolCalls(ProcessToolCallDelta(st, Head(deltas)), Tail(deltas))

\* text.ts 314-332: one TOOL_CALL_END per entry of the map, in insertion order
ToolCallEndEvents(tcs) ==
    [k \in 1..Len(tcs) |->
        [type |-> "TOOL_CALL_END", toolCallId |-> tcs[k].id,
         toolName |-> tcs[k].name, input |-> ParsedInput(tcs[k].arguments)]]

\* mutant of ComputedFinishReason: the vendor's reason alone decides
ComputedFinishReason_VendorOnly(finish_reason, tcs) ==
    IF finish_reason = "tool_calls" THEN "tool_calls"
    ELSE IF finish_reason = "length" THEN "length"
    ELSE "stop"

\* text.ts 335-341
ComputedFinishReason(finish_reason, tcs) ==
    IF finish_reason = "tool_calls" \/ Len(tcs) > 0 THEN "tool_calls"
    ELSE IF finish_reason = "length" THEN "length"
    ELSE "stop"

\* text.ts 309-368
ProcessFinish(st, finish_reason) ==
    IF finish_reason # NoFinish
    THEN LET tcs == st.toolCallsInProgress
             ends == IF finish_reason = "tool_calls" \/ Len(tcs) > 0
                     THEN ToolCallEndEvents(tcs) ELSE << >>
             textEnd == IF st.hasEmittedTextMessageStart
                        THEN <<[type |-> "TEXT_MESSAGE_END"]>> ELSE << >>
         IN [st EXCEPT !.events = @ \o ends \o textEnd \o
                 <<[type |-> "RUN_FINISHED",
                    finishReason |-> ComputedFinishReason(finish_reason, tcs)]>>]
    ELSE st

\* text.ts 217-369, the body of the for-await loop
ProcessChunk(st, c) ==
    IF ~c.hasChoice THEN st
    ELSE ProcessFinish(
             ProcessToolCalls(
                 ProcessContent(EmitRunStarted(st), c.content),
                 c.tool_calls),
             c.finish_reason)

AdapterState ==
    [hasEmittedRunStarted |-> hasEmittedRunStarted,
     accumulatedContent |-> accumulatedContent,
     hasEmittedTextMessageStart |-> hasEmittedTextMessageStart,
     toolCallsInProgress |-> toolCallsInProgress,
     events |-> events]

SetAdapterState(st) ==
    /\ hasEmittedRunStarted' = st.hasEmittedRunStarted
    /\ accumulatedContent' = st.accumulatedContent
    /\ hasEmittedTextMessageStart' = st.hasEmittedTextMessageStart
    /\ toolCallsInProgress' = st.toolCallsInProgress
    /\ events' = st.events

(***************************************************************************)
(* GroqTextAdapter.chatStream: the actions                                 *)
(***************************************************************************)
\* no devtools store is listening
DevtoolsOff ==
    /\ conversationStatus = "none"
    /\ streamLinked = FALSE
    /\ emitted = << >>
    /\ runPc = "none"
    /\ serverPc = "none"

\* streamToResponse is not called
ResponseOff ==
    /\ controller = "off"
    /\ sourceChunks = << >>
    /\ enqueued = << >>

\* no chatStream of another provider is running
LegacyOff ==
    /\ legacyKind = "none"
    /\ legacyPc = "off"
    /\ legacyAccumulated = << >>
    /\ toolCallsMap = << >>
    /\ legacyOut = << >>
    /\ legacyRead = 0

\* the agent loop before it is run
LoopIdle ==
    /\ loopState = "Idle"
    /\ iteration = 0
    /\ history = << >>
    /\ maxIterations = 1
    /\ adapterInvocations = 0
    /\ calls = << >>

\* the client as constructed (chat-client.ts 10-12, 36-53), with no initial messages
ClientIdle ==
    /\ messages = << >>
    /\ isLoading = FALSE
    /\ error = "undefined"
    /\ onToolCall = FALSE
    /\ streams = << >>
    /\ connectCalls = << >>
    /\ toolExecs = {}
    /\ cancelled = FALSE

\* no chunk read yet
NoChunk == Chunk(FALSE, NoContent, NoToolCalls, NoFinish)

NotAborted == [aborted |-> FALSE, phase |-> "none", at |-> 0]

AdapterInit ==
    /\ adapterPc = "create"
    /\ hasEmittedRunStarted = FALSE
    /\ accumulatedContent = << >>
    /\ hasEmittedTextMessageStart = FALSE
    /\ toolCallsInProgress = << >>
    /\ events = << >>
    /\ chunksRead = 0
    /\ chunk = NoChunk
    \* the caller's token may be cancelled before chatStream is consumed
    /\ abortSignal \in {NotAborted, [aborted |-> TRUE, phase |-> "create", at |-> 0]}

\* the adapter before chatStream is called, its token not cancelled
AdapterIdle == AdapterInit /\ abortSignal = NotAborted

\* text.ts 74: mapTextOptionsToGroq runs outside the try; its
\* validateTextProviderOptions may throw, and then chatStream throws with
\* nothing yielded.
MapOptionsThrows ==
    /\ adapterPc = "create"
    /\ adapterPc' = "thrown"
    /\ UNCHANGED <<hasEmittedRunStarted, accumulatedContent, hasEmittedTextMessageStart,
                   toolCallsInProgress, events, chunksRead, chunk, abortSignal>>
    /\ UNCHANGED notAdapterVars

\* text.ts 85-88: client.chat.completions.create resolves with the stream
CreateResolves ==
    /\ adapterPc = "create"
    /\ adapterPc' = "stream"
    /\ UNCHANGED <<hasEmittedRunStarted, accumulatedContent, hasEmittedTextMessageStart,
                   toolCallsInProgress, events, chunksRead, chunk, abortSignal>>
    /\ UNCHANGED notAdapterVars

\* text.ts 95-123: create rejects; the catch of chatStream
CreateRejects ==
    /\ adapterPc = "create"
    /\ adapterPc' = "done"
    /\ hasEmittedRunStarted' = TRUE
    /\ events' = events
                 \o (IF ~hasEmittedRunStarted THEN <<[type |-> "RUN_STARTED"]>> ELSE << >>)
                 \o <<[type |-> "RUN_ERROR"]>>
    /\ UNCHANGED <<accumulatedContent, hasEmittedTextMessageStart,
                   toolCallsInProgress, chunksRead, chunk, abortSignal>>
    /\ UNCHANGED notAdapterVars

\* text.ts 217-369: the vendor stream delivers one chunk
StreamChunk ==
    /\ adapterPc = "stream"
    /\ chunksRead < MaxChunks
    /\ \E next \in VendorChunks :
          /\ chunk' = next
          /\ SetAdapterState(ProcessChunk(AdapterState, next))
    /\ chunksRead' = chunksRead + 1
    /\ UNCHANGED <<adapterPc, abortSignal>>
    /\ UNCHANGED notAdapterVars

\* text.ts 217, 385: the vendor stream is exhausted; the generator returns
StreamEnds ==
    /\ adapterPc = "stream"
    /\ adapterPc' = "done"
    /\ UNCHANGED <<hasEmittedRunStarted, accumulatedContent, hasEmittedTextMessageStart,
                   toolCallsInProgress, events, chunksRead, chunk, abortSignal>>
    /\ UNCHANGED notAdapterVars

\* text.ts 370-384: reading the vendor stream throws; the catch of
\* processGroqStreamChunks yields RUN_ERROR and the generator returns
StreamThrows ==
    /\ adapterPc = "stream"
    /\ adapterPc' = "done"
    /\ events' = Append(events, [type |-> "RUN_ERROR"])
    /\ UNCHANGED <<hasEmittedRunStarted, accumulatedContent, hasEmittedTextMessageStart,
                   toolCallsInProgress, chunksRead, chunk, abortSignal>>
    /\ UNCHANGED notAdapterVars

\* The caller cancels its token while the stream is consumed.  Nothing in
\* text.ts 71-385 reads the token.
Abort ==
    /\ adapterPc \in {"create", "stream"}
    /\ ~abortSignal.aborted
    /\ abortSignal' = [aborted |-> TRUE, phase |-> adapterPc, at |-> Len(events)]
    /\ UNCHANGED <<adapterPc, hasEmittedRunStarted, accumulatedContent,
                   hasEmittedTextMessageStart, toolCallsInProgress, events, chunksRead,
                   chunk>>
    /\ UNCHANGED notAdapterVars

AdapterNext ==
    \/ MapOptionsThrows
    \/ CreateResolves
    \/ CreateRejects
    \/ StreamChunk
    \/ StreamEnds
    \/ StreamThrows
    \/ Abort

InitAdapter == AdapterInit /\ ClientIdle /\ LoopIdle /\ LegacyOff /\ ResponseOff /\ DevtoolsOff

SpecAdapter == InitAdapter /\ [][AdapterNext]_vars

(***************************************************************************)
(* ChatClient: message parts                                               *)
(*                                                                         *)
(* Every part is a record of the same shape; approvalId = 0 stands for a   *)
(* tool-call part without an approval object, output = "undefined" for a   *)
(* part whose output was never set.                                        *)
(***************************************************************************)
NoApproval == 0

TextPart(content) ==
    [type |-> "text", id |-> 0, state |-> "", output |-> "undefined",
     approvalId |-> NoApproval, approved |-> "unset", content |-> content]

ToolCallPart(id, state) ==
    [type |-> "tool-call", id |-> id, state |-> state, output |-> "undefined",
     approvalId |-> NoApproval, approved |-> "unset", content |-> << >>]

IsText(p) == p.type = "text"
IsToolCall(p) == p.type = "tool-call"
IsOther(p) == p.type # "tool-call" /\ p.type # "text"
IsToolCallWithId(p, id) == p.type = "tool-call" /\ p.id = id
HasApprovalId(p, approvalId) ==
    p.type = "tool-call" /\ p.approvalId # NoApproval /\ p.approvalId = approvalId

\* Array.prototype.findIndex, 0 for "not found"
FindIndex(parts, Test(_)) ==
    IF \E i \in 1..Len(parts) : Test(parts[i])
    THEN CHOOSE i \in 1..Len(parts) :
             Test(parts[i]) /\ \A j \in 1..(i - 1) : ~Test(parts[j])
    ELSE 0

\* chat-client.ts 155-170
OnTextUpdateParts(parts, content) ==
    LET textPartIndex == FindIndex(parts, IsText)
    IN IF textPartIndex > 0
       THEN [parts EXCEPT ![textPartIndex] = TextPart(content)]
       ELSE SelectSeq(parts, IsToolCall) \o SelectSeq(parts, IsOther)
                \o <<TextPart(content)>>

\* mutant of OnToolCallStateChangeParts: a new tool-call part is pushed at the
\* end, also when the message holds a text part
OnToolCallStateChangeParts_Push(parts, id, state) ==
    LET existingPartIndex == FindIndex(parts, LAMBDA p : IsToolCallWithId(p, id))
        toolCallPart == ToolCallPart(id, state)
    IN IF existingPartIndex > 0
       THEN [parts EXCEPT ![existingPartIndex] = toolCallPart]
       ELSE Append(parts, toolCallPart)

\* mutant of OnToolCallStateChangeParts: the part is looked up at the position
\* that the call has among the calls of the conversation, not by its id
OnToolCallStateChangeParts_ByPosition(parts, id, state) ==
    LET existingPartIndex == IF id <= Len(parts) /\ IsToolCall(parts[id]) THEN id ELSE 0
        toolCallPart == ToolCallPart(id, state)
        textPartIndex == FindIndex(parts, IsText)
    IN IF existingPartIndex > 0
       THEN [parts EXCEPT ![existingPartIndex] = toolCallPart]
       ELSE IF textPartIndex > 0
       THEN SubSeq(parts, 1, textPartIndex - 1) \o <<toolCallPart>>
                \o SubSeq(parts, textPartIndex, Len(parts))
       ELSE Append(parts, toolCallPart)

\* chat-client.ts 202-229
OnToolCallStateChangeParts(parts, id, state) ==
    LET existingPartIndex == FindIndex(parts, LAMBDA p : IsToolCallWithId(p, id))
        toolCallPart == ToolCallPart(id, state)
        textPartIndex == FindIndex(parts, IsText)
    IN IF existingPartIndex > 0
       THEN [parts EXCEPT ![existingPartIndex] = toolCallPart]
       ELSE IF textPartIndex > 0
       THEN SubSeq(parts, 1, textPartIndex - 1) \o <<toolCallPart>>
                \o SubSeq(parts, textPartIndex, Len(parts))
       ELSE Append(parts, toolCallPart)

\* mutant of OnApprovalRequestedParts: the state is set, the approval is not
\* attached
OnApprovalRequestedParts_StateOnly(parts, toolCallId, approvalId) ==
    LET k == FindIndex(parts, LAMBDA p : IsToolCallWithId(p, toolCallId))
    IN IF k > 0
       THEN [parts EXCEPT ![k].state = "approval-requested"]
       ELSE parts

\* chat-client.ts 291-304
OnApprovalRequestedParts(parts, toolCallId, approvalId) ==
    LET k == FindIndex(parts, LAMBDA p : IsToolCallWithId(p, toolCallId))
    IN IF k > 0
       THEN [parts EXCEPT ![k].state = "approval-requested",
                          ![k].approvalId = approvalId,
                          ![k].approved = "unset"]
       ELSE parts

\* chat-client.ts 341-350
OnToolInputCompleteParts(parts, toolCallId) ==
    LET k == FindIndex(parts, LAMBDA p : IsToolCallWithId(p, toolCallId))
    IN IF k > 0 THEN [parts EXCEPT ![k].state = "input-complete"] ELSE parts

\* chat-client.ts 584-596
AddToolResultParts(parts, toolCallId, output) ==
    LET k == FindIndex(parts, LAMBDA p : IsToolCallWithId(p, toolCallId))
    IN IF k > 0
       THEN [parts EXCEPT ![k].output = output, ![k].state = "input-complete"]
       ELSE parts

\* mutant of AddToolApprovalResponseParts: the first tool call that carries an
\* approval, whatever its id
AddToolApprovalResponseParts_FirstApproval(parts, approvalId, approved) ==
    LET k == FindIndex(parts, LAMBDA p : IsToolCall(p) /\ p.approvalId # NoApproval)
    IN IF k > 0
       THEN [parts EXCEPT ![k].approved = approved,
                          ![k].state = "approval-responded"]
       ELSE parts

\* chat-client.ts 642-654
AddToolApprovalResponseParts(parts, approvalId, approved) ==
    LET k == FindIndex(parts, LAMBDA p : HasApprovalId(p, approvalId))
    IN IF k > 0
       THEN [parts EXCEPT ![k].approved = approved,
                          ![k].state = "approval-responded"]
       ELSE parts

(***************************************************************************)
(* ChatClient: messages                                                    *)
(***************************************************************************)
Message(id, role, parts) == [id |-> id, role |-> role, parts |-> parts]

\* generateMessageId (chat-client.ts 67-71): a fresh id per call; call n of
\* append / continueFlow draws 2n-1 for its user message and 2n for the
\* assistant placeholder.
UserMessageId(n) == 2 * n - 1
AssistantMessageId(n) == 2 * n

\* the toolCallIds of a conversation; the approval of a tool call carries
\* that call's number as its id
ToolCallIds == 1..MaxToolCalls

\* the handlers of processStreamWithProcessor touch the assistant message only
MapAssistant(msgs, assistantMessageId, F(_)) ==
    [i \in 1..Len(msgs) |->
        IF msgs[i].id = assistantMessageId
        THEN [msgs[i] EXCEPT !.parts = F(@)] ELSE msgs[i]]

\* addToolResult / addToolApprovalResponse map over every message
MapAll(msgs, F(_)) ==
    [i \in 1..Len(msgs) |-> [msgs[i] EXCEPT !.parts = F(@)]]

ToolCallParts(msg) == SelectSeq(msg.parts, IsToolCall)

\* chat-client.ts 691-693: [...messages].reverse().find(role = assistant), 0 for none
LastAssistantIndex(msgs) ==
    IF \E i \in 1..Len(msgs) : msgs[i].role = "assistant"
    THEN CHOOSE i \in 1..Len(msgs) :
             msgs[i].role = "assistant"
             /\ \A j \in (i + 1)..Len(msgs) : msgs[j].role # "assistant"
    ELSE 0

\* chat-client.ts 704-708
PartIsComplete(part) ==
    \/ part.state = "approval-responded"
    \/ (part.output # "undefined" /\ part.approvalId = NoApproval)

\* mutant of PartsAllComplete: some instead of every
PartsAllComplete_Some(toolParts) ==
    \E k \in 1..Len(toolParts) : PartIsComplete(toolParts[k])

\* chat-client.ts 704: toolParts.every(...)
PartsAllComplete(toolParts) ==
    \A k \in 1..Len(toolParts) : PartIsComplete(toolParts[k])

\* mutant of ShouldAutoSend: a message without tool calls counts as complete
ShouldAutoSend_EmptyIsComplete(msgs) ==
    LET last == LastAssistantIndex(msgs)
    IN /\ last # 0
       /\ PartsAllComplete(ToolCallParts(msgs[last]))

\* chat-client.ts 690-709
ShouldAutoSend(msgs) ==
    LET last == LastAssistantIndex(msgs)
    IN /\ last # 0
       /\ Len(ToolCallParts(msgs[last])) # 0
       /\ PartsAllComplete(ToolCallParts(msgs[last]))

(***************************************************************************)
(* ChatClient: the actions                                                 *)
(***************************************************************************)
ClientInit ==
    /\ messages = << >>
    /\ isLoading = FALSE
    /\ error = "undefined"
    /\ onToolCall \in BOOLEAN
    /\ streams = << >>
    /\ connectCalls = << >>
    /\ toolExecs = {}
    /\ cancelled = FALSE

NewCall(origin, status, msgId) ==
    [origin |-> origin, status |-> status, msgId |-> msgId, aborted |-> FALSE]

\* chat-client.ts 447-460: append up to its first await (onResponse)
DoAppend(msgs, uiMessage) ==
    /\ Len(streams) < MaxStreams
    /\ messages' = Append(msgs, uiMessage)
    /\ isLoading' = TRUE
    /\ error' = "undefined"
    /\ streams' = Append(streams, NewCall("append", "awaitResponse", 0))
    /\ cancelled' = FALSE
    /\ UNCHANGED <<onToolCall, connectCalls, toolExecs>>

\* chat-client.ts 387-460: append called directly with a user message
AppendMessage ==
    /\ DoAppend(messages,
                Message(UserMessageId(Len(streams) + 1), "user", <<TextPart(<<"u">>)>>))
    /\ UNCHANGED notClientVars

\* chat-client.ts 485-506
SendMessage ==
    /\ ~isLoading
    /\ DoAppend(messages,
                Message(UserMessageId(Len(streams) + 1), "user", <<TextPart(<<"u">>)>>))
    /\ UNCHANGED notClientVars

LastUserIndex(msgs) ==
    IF \E i \in 1..Len(msgs) : msgs[i].role = "user"
    THEN CHOOSE i \in 1..Len(msgs) :
             msgs[i].role = "user" /\ \A j \in (i + 1)..Len(msgs) : msgs[j].role # "user"
    ELSE 0

\* chat-client.ts 508-535
Reload ==
    /\ LastUserIndex(messages) # 0
    /\ DoAppend(SubSeq(messages, 1, LastUserIndex(messages)),
                messages[LastUserIndex(messages)])
    /\ UNCHANGED notClientVars

\* chat-client.ts 102-118: processStream adds the assistant placeholder
WithPlaceholder(msgs, assistantMessageId) ==
    Append(msgs, Message(assistantMessageId, "assistant", << >>))

\* chat-client.ts 460-466: onResponse has resolved; connect and processStream
AppendConnects(n) ==
    /\ streams[n].status = "awaitResponse"
    /\ connectCalls' = Append(connectCalls, "append")
    /\ messages' = WithPlaceholder(messages, AssistantMessageId(n))
    /\ streams' = [streams EXCEPT ![n].status = "open",
                                  ![n].msgId = AssistantMessageId(n)]
    /\ UNCHANGED <<isLoading, error, onToolCall, toolExecs, cancelled>>
    /\ UNCHANGED notClientVars

\* the stream of call n can deliver a chunk to the processor's handlers
Delivering(n) ==
    /\ streams[n].status = "open"
    /\ ~streams[n].aborted

\* The order in which the stream processor calls the handlers for one tool
\* call: the part is created as input-streaming (the calls in the order of
\* their ids) in the message of the stream that carries the call, then it is
\* input-complete, and then either the approval request or the tool input
\* arrives, once.
ToolCallPartsWithId(msgs, toolCallId) ==
    { p \in UNION { { msgs[i].parts[k] : k \in 1..Len(msgs[i].parts) } :
                        i \in 1..Len(msgs) } : IsToolCallWithId(p, toolCallId) }

HasToolCallPart(msgs, toolCallId) == ToolCallPartsWithId(msgs, toolCallId) # {}

ToolCallPartIn(msgs, toolCallId) == CHOOSE p \in ToolCallPartsWithId(msgs, toolCallId) : TRUE

\* the message of stream n holds the tool-call part of this id
OwnsToolCall(msgs, n, id) ==
    \E i \in 1..Len(msgs) :
        /\ msgs[i].id = AssistantMessageId(n)
        /\ FindIndex(msgs[i].parts, LAMBDA p : IsToolCallWithId(p, id)) # 0

StateChangeInOrder(msgs, n, id, state) ==
    IF state = "input-streaming"
    THEN /\ ~HasToolCallPart(msgs, id)
         /\ \A lower \in ToolCallIds : lower < id => HasToolCallPart(msgs, lower)
    ELSE /\ OwnsToolCall(msgs, n, id)
         /\ ToolCallPartIn(msgs, id).state = "input-streaming"

\* nothing has been decided for the call of stream n yet: no output, no
\* approval, not executing
Undecided(msgs, n, id) ==
    /\ OwnsToolCall(msgs, n, id)
    /\ ToolCallPartIn(msgs, id).output = "undefined"
    /\ ToolCallPartIn(msgs, id).approvalId = NoApproval
    /\ id \notin toolExecs

\* chat-client.ts 135-175
OnTextUpdate(n) ==
    /\ Delivering(n)
    /\ messages' = MapAssistant(messages, streams[n].msgId,
                                LAMBDA parts : OnTextUpdateParts(parts, <<"x">>))
    /\ UNCHANGED <<isLoading, error, onToolCall, streams, connectCalls, toolExecs, cancelled>>
    /\ UNCHANGED notClientVars

\* chat-client.ts 176-234
OnToolCallStateChange(n) ==
    /\ Delivering(n)
    /\ \E id \in ToolCallIds, state \in {"input-streaming", "input-complete"} :
          /\ StateChangeInOrder(messages, n, id, state)
          /\ messages' = MapAssistant(messages, streams[n].msgId,
                             LAMBDA parts : OnToolCallStateChangeParts(parts, id, state))
    /\ UNCHANGED <<isLoading, error, onToolCall, streams, connectCalls, toolExecs, cancelled>>
    /\ UNCHANGED notClientVars

\* chat-client.ts 275-309
OnApprovalRequested(n) ==
    /\ Delivering(n)
    /\ \E id \in ToolCallIds :
          /\ Undecided(messages, n, id)
          /\ ToolCallPartIn(messages, id).state = "input-complete"
          /\ messages' = MapAssistant(messages, streams[n].msgId,
                             LAMBDA parts : OnApprovalRequestedParts(parts, id, id))
    /\ UNCHANGED <<isLoading, error, onToolCall, streams, connectCalls, toolExecs, cancelled>>
    /\ UNCHANGED notClientVars

\* chat-client.ts 310-318: with onToolCall the tool starts to execute
OnToolInputAvailableExecutes(n) ==
    /\ Delivering(n)
    /\ onToolCall
    /\ \E id \in ToolCallIds :
          /\ Undecided(messages, n, id)
          /\ toolExecs' = toolExecs \cup {id}
    /\ UNCHANGED <<messages, isLoading, error, onToolCall, streams, connectCalls, cancelled>>
    /\ UNCHANGED notClientVars

\* chat-client.ts 336-355: without onToolCall the part is marked input-complete
OnToolInputAvailableMarks(n) ==
    /\ Delivering(n)
    /\ ~onToolCall
    /\ \E id \in ToolCallIds :
          /\ Undecided(messages, n, id)
          /\ ToolCallPartIn(messages, id).state = "input-streaming"
          /\ messages' = MapAssistant(messages, streams[n].msgId,
                             LAMBDA parts : OnToolInputCompleteParts(parts, id))
    /\ UNCHANGED <<isLoading, error, onToolCall, streams, connectCalls, toolExecs, cancelled>>
    /\ UNCHANGED notClientVars

\* chat-client.ts 668-685 with 102-118: continueFlow up to the first await of
\* processStream; it returns at once while isLoading
ContinueFlow(msgs) ==
    IF isLoading
    THEN /\ messages' = msgs
         /\ UNCHANGED <<isLoading, error, streams, connectCalls>>
    ELSE /\ Len(streams) < MaxStreams
         /\ isLoading' = TRUE
         /\ error' = "undefined"
         /\ connectCalls' = Append(connectCalls, "continue")
         /\ messages' = WithPlaceholder(msgs, AssistantMessageId(Len(streams) + 1))
         /\ streams' = Append(streams,
                              NewCall("continue", "open",
                                      AssistantMessageId(Len(streams) + 1)))

\* chat-client.ts 600-604, 658-662: the auto-send check after an update
AutoSend(msgs) ==
    IF ShouldAutoSend(msgs)
    THEN ContinueFlow(msgs)
    ELSE /\ messages' = msgs
         /\ UNCHANGED <<isLoading, error, streams, connectCalls>>

\* chat-client.ts 564-605
AddToolResult(toolCallId, output) ==
    AutoSend(MapAll(messages, LAMBDA parts : AddToolResultParts(parts, toolCallId, output)))

ToolCallIdsIn(msgs) == { id \in ToolCallIds : HasToolCallPart(msgs, id) }

\* chat-client.ts 314-326: the onToolCall promise resolves
ToolCallResolves ==
    /\ \E id \in toolExecs :
          /\ toolExecs' = toolExecs \ {id}
          /\ AddToolResult(id, "value")
    /\ UNCHANGED <<onToolCall, cancelled>>
    /\ UNCHANGED notClientVars

\* chat-client.ts 327-334: the onToolCall promise rejects
ToolCallRejects ==
    /\ \E id \in toolExecs :
          /\ toolExecs' = toolExecs \ {id}
          /\ AddToolResult(id, "error")
    /\ UNCHANGED <<onToolCall, cancelled>>
    /\ UNCHANGED notClientVars

\* chat-client.ts 564-605: the application supplies the result of a tool call
\* that has none yet
AddToolResultCalled ==
    /\ \E id \in ToolCallIdsIn(messages) :
          /\ ToolCallPartIn(messages, id).output = "undefined"
          /\ id \notin toolExecs
          /\ AddToolResult(id, "value")
    /\ UNCHANGED <<onToolCall, toolExecs, cancelled>>
    /\ UNCHANGED notClientVars

\* chat-client.ts 610-663: the decision for an approval that was requested
\* and has no decision yet
AddToolApprovalResponse ==
    /\ \E id \in ToolCallIdsIn(messages), approved \in {"true", "false"} :
          /\ ToolCallPartIn(messages, id).approvalId = id
          /\ ToolCallPartIn(messages, id).approved = "unset"
          /\ AutoSend(MapAll(messages,
                 LAMBDA parts : AddToolApprovalResponseParts(parts, id, approved)))
    /\ UNCHANGED <<onToolCall, toolExecs, cancelled>>
    /\ UNCHANGED notClientVars

\* chat-client.ts 466-469, 480-482, 682-684: the stream ends
StreamFinishes(n) ==
    /\ streams[n].status = "open"
    /\ ~streams[n].aborted
    /\ streams' = [streams EXCEPT ![n].status = "closed"]
    /\ isLoading' = FALSE
    /\ UNCHANGED <<messages, error, onToolCall, connectCalls, toolExecs, cancelled>>
    /\ UNCHANGED notClientVars

\* chat-client.ts 470-482, 679-684: reading the stream throws
StreamFails(n) ==
    /\ streams[n].status = "open"
    /\ ~streams[n].aborted
    /\ streams' = [streams EXCEPT ![n].status = "closed"]
    /\ error' = "Error"
    /\ isLoading' = FALSE
    /\ UNCHANGED <<messages, onToolCall, connectCalls, toolExecs, cancelled>>
    /\ UNCHANGED notClientVars

\* chat-client.ts 470-482, 679-684: the aborted stream throws an AbortError;
\* append ignores it, continueFlow records it
StreamAborted(n) ==
    /\ streams[n].status = "open"
    /\ streams[n].aborted
    /\ streams' = [streams EXCEPT ![n].status = "closed"]
    /\ error' = IF streams[n].origin = "append" THEN error ELSE "AbortError"
    /\ isLoading' = FALSE
    /\ UNCHANGED <<messages, onToolCall, connectCalls, toolExecs, cancelled>>
    /\ UNCHANGED notClientVars

\* connection.abort(): the open connections are aborted
ConnectionAbort(strs) ==
    [n \in 1..Len(strs) |->
        IF strs[n].status = "open" THEN [strs[n] EXCEPT !.aborted = TRUE] ELSE strs[n]]

\* mutant of Stop: every stop is recorded as an error
Stop_RecordsError ==
    /\ streams' = ConnectionAbort(streams)
    /\ isLoading' = FALSE
    /\ cancelled' = TRUE
    /\ error' = "AbortError"
    /\ UNCHANGED <<messages, onToolCall, connectCalls, toolExecs>>
    /\ UNCHANGED notClientVars

\* chat-client.ts 537-548
Stop ==
    /\ streams' = ConnectionAbort(streams)
    /\ isLoading' = FALSE
    /\ cancelled' = TRUE
    /\ UNCHANGED <<messages, error, onToolCall, connectCalls, toolExecs>>
    /\ UNCHANGED notClientVars

ClientNext ==
    \/ AppendMessage
    \/ SendMessage
    \/ Reload
    \/ Stop
    \/ ToolCallResolves
    \/ ToolCallRejects
    \/ AddToolResultCalled
    \/ AddToolApprovalResponse
    \/ \E n \in 1..Len(streams) : AppendConnects(n)
    \/ \E n \in 1..Len(streams) : OnTextUpdate(n)
    \/ \E n \in 1..Len(streams) : OnToolCallStateChange(n)
    \/ \E n \in 1..Len(streams) : OnApprovalRequested(n)
    \/ \E n \in 1..Len(streams) : OnToolInputAvailableExecutes(n)
    \/ \E n \in 1..Len(streams) : OnToolInputAvailableMarks(n)
    \/ \E n \in 1..Len(streams) : StreamFinishes(n)
    \/ \E n \in 1..Len(streams) : StreamFails(n)
    \/ \E n \in 1..Len(streams) : StreamAborted(n)

InitClient == ClientInit /\ AdapterIdle /\ LoopIdle /\ LegacyOff /\ ResponseOff /\ DevtoolsOff

SpecClient == InitClient /\ [][ClientNext]_vars

(***************************************************************************)
(* Claims about ChatClient                                                 *)
(***************************************************************************)
ContinueCount ==
    Cardinality({ i \in 1..Len(connectCalls) : connectCalls[i] = "continue" })

\* a tool call that still waits: for its approval decision, or for an output
\* when no decision was given
NonTerminal(part) ==
    \/ part.state = "approval-requested"
    \/ (part.output = "undefined" /\ part.state # "approval-responded")

\* the messages continueFlow has just handed to connection.connect: all but
\* the placeholder that processStream appended after them
SentToConnect(msgs) == SubSeq(msgs, 1, Len(msgs) - 1)

OpenStreams == { n \in 1..Len(streams) : streams[n].status = "open" /\ ~streams[n].aborted }

\* C7: at most one stream of the conversation is open at any time.
C7_AtMostOneOpenStream == Cardinality(OpenStreams) <= 1

\* C10: once stop() was called (and no new message was sent since), no
\* continuation stream and no tool execution is started.
C10_NothingStartsAfterStop ==
    [][cancelled => (ContinueCount' = ContinueCount /\ toolExecs' \subseteq toolExecs)]_vars

\* C11: when the onToolCall executor of a tool call throws, the call is
\* recorded with state output-error and the error message as its output, the
\* client's error stays as it was, and the continuation starts exactly when it
\* would for a successful result (every call of the latest assistant message
\* complete, no stream loading).
C11_ExecutorErrorIsRecordedAndLoopContinues ==
    [][\A id \in toolExecs :
          (/\ id \notin toolExecs'
           /\ HasToolCallPart(messages', id)
           /\ ToolCallPartIn(messages', id).output = "error")
          => /\ ToolCallPartIn(messages', id).state = "output-error"
             /\ error' = error
             /\ (ShouldAutoSend(MapAll(messages,
                       LAMBDA parts : AddToolResultParts(parts, id, "value")))
                   /\ ~isLoading /\ Len(streams) < MaxStreams)
                  => ContinueCount' = ContinueCount + 1
      ]_vars

\* C12: when the decision approved = false arrives for a tool call, a tool
\* result with state output-error and the content "rejected by user" is
\* recorded for that call, and the continuation starts without further input
\* (as soon as every call of the latest assistant message is complete and no
\* stream is loading).
C12_RejectionIsRecordedAsOutputError ==
    [][\A id \in ToolCallIdsIn(messages) :
          (/\ ToolCallPartIn(messages, id).approved = "unset"
           /\ HasToolCallPart(messages', id)
           /\ ToolCallPartIn(messages', id).approved = "false")
          => /\ ToolCallPartIn(messages', id).state = "output-error"
             /\ ToolCallPartIn(messages', id).output = "rejected by user"
             /\ (ShouldAutoSend(MapAll(messages,
                       LAMBDA parts : AddToolApprovalResponseParts(parts, id, "false")))
                   /\ ~isLoading /\ Len(streams) < MaxStreams)
                  => ContinueCount' = ContinueCount + 1
      ]_vars

(***************************************************************************)
(* ChatClient: the handlers of one stream at a time, tool results included *)
(***************************************************************************)
ToolResultPart(toolCallId, state) ==
    [type |-> "tool-result", id |-> toolCallId, state |-> state, output |-> "undefined",
     approvalId |-> NoApproval, approved |-> "unset", content |-> << >>]

IsToolResult(p) == p.type = "tool-result"
IsToolResultWithId(p, toolCallId) == p.type = "tool-result" /\ p.id = toolCallId

\* mutant of OnToolResultStateChangeParts: a new result part is put first
OnToolResultStateChangeParts_Unshift(parts, toolCallId, state) ==
    LET resultPartIndex == FindIndex(parts, LAMBDA p : IsToolResultWithId(p, toolCallId))
    IN IF resultPartIndex > 0
       THEN [parts EXCEPT ![resultPartIndex] = ToolResultPart(toolCallId, state)]
       ELSE <<ToolResultPart(toolCallId, state)>> \o parts

\* chat-client.ts 250-268
OnToolResultStateChangeParts(parts, toolCallId, state) ==
    LET resultPartIndex == FindIndex(parts, LAMBDA p : IsToolResultWithId(p, toolCallId))
    IN IF resultPartIndex > 0
       THEN [parts EXCEPT ![resultPartIndex] = ToolResultPart(toolCallId, state)]
       ELSE Append(parts, ToolResultPart(toolCallId, state))

ToolResultPartsWithId(msgs, toolCallId) ==
    { p \in UNION { { msgs[i].parts[k] : k \in 1..Len(msgs[i].parts) } :
                        i \in 1..Len(msgs) } : IsToolResultWithId(p, toolCallId) }

\* The order in which the processor reports the results of the tool calls the
\* server executes: the orchestrator sequences the results in the order in
\* which the calls were started; a result is first reported as streaming and
\* is then complete or failed, the calls finishing in any order.
ResultInOrder(msgs, n, id, state) ==
    /\ OwnsToolCall(msgs, n, id)
    /\ IF state = "streaming"
       THEN /\ ToolResultPartsWithId(msgs, id) = {}
            /\ \A lower \in ToolCallIds :
                  (lower < id /\ OwnsToolCall(msgs, n, lower))
                      => ToolResultPartsWithId(msgs, lower) # {}
       ELSE \E p \in ToolResultPartsWithId(msgs, id) : p.state = "streaming"

\* chat-client.ts 235-274
OnToolResultStateChange(n) ==
    /\ Delivering(n)
    /\ \E id \in ToolCallIds, state \in {"streaming", "complete", "error"} :
          /\ ResultInOrder(messages, n, id, state)
          /\ messages' = MapAssistant(messages, streams[n].msgId,
                             LAMBDA parts : OnToolResultStateChangeParts(parts, id, state))
    /\ UNCHANGED <<isLoading, error, onToolCall, streams, connectCalls, toolExecs, cancelled>>
    /\ UNCHANGED notClientVars

\* chat-client.ts 564-605: addToolResult for a toolCallId that no part of the
\* conversation carries: the map leaves every part as it is and the auto-send
\* check runs on the conversation as it stands
AddToolResultUnknown ==
    /\ AutoSend(messages)
    /\ UNCHANGED <<onToolCall, toolExecs, cancelled>>
    /\ UNCHANGED notClientVars

ReducerNext ==
    \/ SendMessage
    \/ AddToolResultUnknown
    \/ ToolCallResolves
    \/ ToolCallRejects
    \/ \E n \in 1..Len(streams) : AppendConnects(n)
    \/ \E n \in 1..Len(streams) : OnTextUpdate(n)
    \/ \E n \in 1..Len(streams) : OnToolCallStateChange(n)
    \/ \E n \in 1..Len(streams) : OnToolResultStateChange(n)
    \/ \E n \in 1..Len(streams) : OnApprovalRequested(n)
    \/ \E n \in 1..Len(streams) : OnToolInputAvailableExecutes(n)
    \/ \E n \in 1..Len(streams) : OnToolInputAvailableMarks(n)
    \/ \E n \in 1..Len(streams) : StreamFinishes(n)

SpecReducer == InitClient /\ [][ReducerNext]_vars

\* the ids of the parts of one kind, in the order of the parts
PartIds(parts, kind) ==
    LET sel == SelectSeq(parts, LAMBDA p : p.type = kind)
    IN [k \in 1..Len(sel) |-> sel[k].id]

\* ascending: the calls of a conversation are started in the order of their ids
InStartOrder(ids) == \A a, b \in 1..Len(ids) : a < b => ids[a] < ids[b]

BeingBuilt(msg) ==
    \E n \in 1..Len(streams) : streams[n].status = "open" /\ streams[n].msgId = msg.id

\* C21: the history only grows: every step leaves the messages appended so
\* far unchanged in content and position (the assistant message that an open
\* stream is still building apart) and at most appends messages.
C21_HistoryOnlyGrows ==
    [][/\ Len(messages') >= Len(messages)
       /\ \A i \in 1..Len(messages) :
             BeingBuilt(messages[i]) \/ messages'[i] = messages[i]
      ]_vars

\* the tool calls of the conversation whose part differs after the step
ChangedToolCalls ==
    { id \in ToolCallIdsIn(messages) :
        ~HasToolCallPart(messages', id)
        \/ ToolCallPartIn(messages', id) # ToolCallPartIn(messages, id) }

\* C22: a decision {approvalId, approved} changes exactly one tool call, one
\* that was waiting for its decision, whatever its position among the
\* outstanding approvals; every other tool call, its approval state included,
\* and the order of the parts stay as they were.
C22_DecisionChangesOnlyItsToolCall ==
    [][\A id \in ToolCallIdsIn(messages) :
          (/\ HasToolCallPart(messages', id)
           /\ ToolCallPartIn(messages', id).approved # ToolCallPartIn(messages, id).approved)
          => /\ ToolCallPartIn(messages, id).approvalId # NoApproval
             /\ ToolCallPartIn(messages, id).approved = "unset"
             /\ ToolCallPartIn(messages', id).approvalId =
                    ToolCallPartIn(messages, id).approvalId
             /\ ChangedToolCalls = {id}
             /\ \A i \in 1..Len(messages) :
                   PartIds(messages'[i].parts, "tool-call")
                       = PartIds(messages[i].parts, "tool-call")
      ]_vars

\* C22 witness: two approvals were outstanding in one message and the decision
\* for the second call has arrived, the first call still waiting
C22_Witness ==
    \E i \in 1..Len(messages) :
        LET parts == messages[i].parts
        IN \E a, b \in 1..Len(parts) :
              /\ a < b
              /\ IsToolCall(parts[a]) /\ IsToolCall(parts[b])
              /\ parts[a].state = "approval-requested" /\ parts[a].approved = "unset"
              /\ parts[b].state = "approval-responded" /\ parts[b].approved = "true"

\* the conversation is fully terminal: nothing is loading, streaming or
\* executing, the last message is the assistant's and carries no tool call
\* (the run finished with "stop"), and no tool call of the conversation waits
FullyTerminal ==
    /\ ~isLoading
    /\ toolExecs = {}
    /\ \A n \in 1..Len(streams) : streams[n].status = "closed"
    /\ Len(messages) > 0
    /\ messages[Len(messages)].role = "assistant"
    /\ Len(ToolCallParts(messages[Len(messages)])) = 0
    /\ \A id \in ToolCallIdsIn(messages) : ~NonTerminal(ToolCallPartIn(messages, id))

\* C23: a step from a fully terminal conversation calls the connection for no
\* continuation and leaves the messages as they are, unless it is the user
\* who sends a new message, which is then appended.
C23_TerminalConversationStaysPut ==
    [][FullyTerminal =>
          /\ connectCalls' = connectCalls
          /\ \/ messages' = messages
             \/ /\ Len(messages') = Len(messages) + 1
                /\ SubSeq(messages', 1, Len(messages)) = messages
                /\ messages'[Len(messages')].role = "user"
      ]_vars

\* C23 witness: a fully terminal conversation, its last message holding the
\* answer's text, while the client could still open a stream
C23_Witness ==
    /\ FullyTerminal
    /\ Len(streams) < MaxStreams
    /\ \E k \in 1..Len(messages[Len(messages)].parts) :
          IsText(messages[Len(messages)].parts[k])

\* the positions of the parts of a message that satisfy a test
TextPositions(parts) == { k \in 1..Len(parts) : IsText(parts[k]) }
ToolCallPositions(parts) == { k \in 1..Len(parts) : IsToolCall(parts[k]) }

\* C24: in every message the text part is one and comes after every
\* tool-call part, in whatever order the text and the tool-call events of the
\* stream arrive.
C24_TextPartAfterToolCalls ==
    \A i \in 1..Len(messages) :
        /\ Cardinality(TextPositions(messages[i].parts)) <= 1
        /\ \A t \in TextPositions(messages[i].parts),
              c \in ToolCallPositions(messages[i].parts) : c < t

\* C24 witness: an assistant message with two tool-call parts, the second one
\* just created (input-streaming) behind a tool result of the first, and the
\* text part after both
C24_Witness ==
    \E i \in 1..Len(messages) :
        LET parts == messages[i].parts
        IN \E a, r, b, t \in 1..Len(parts) :
              /\ a < r /\ r < b /\ b < t
              /\ IsToolCall(parts[a])
              /\ IsToolResult(parts[r])
              /\ IsToolCall(parts[b]) /\ parts[b].state = "input-streaming"
              /\ IsText(parts[t])

\* the tool calls of the conversation whose parts differ after the step, the
\* calls that get their first part included
TouchedToolCalls ==
    { id \in ToolCallIds :
        ToolCallPartsWithId(messages', id) # ToolCallPartsWithId(messages, id) }

ToolCallCount(parts, id) ==
    Cardinality({ k \in 1..Len(parts) : IsToolCallWithId(parts[k], id) })

\* C25: after every step a message holds at most one tool-call part per
\* toolCallId, and a step changes the part of at most one toolCallId: an event
\* for call X creates or updates the part with id X, wherever it stands, and
\* no other tool-call part.
C25_ToolCallPartsAreLocatedById ==
    [][/\ \A i \in 1..Len(messages'), id \in ToolCallIds :
             ToolCallCount(messages'[i].parts, id) <= 1
       /\ Cardinality(TouchedToolCalls) <= 1
      ]_vars

\* C25 witness: the tool call with id 2 is the first part of its message and
\* has been updated to input-complete there, while the message also holds
\* the text part
C25_Witness ==
    \E i \in 1..Len(messages) :
        LET parts == messages[i].parts
        IN /\ Len(parts) >= 2
           /\ IsToolCallWithId(parts[1], 2)
           /\ parts[1].state = "input-complete"
           /\ ToolCallCount(parts, 2) = 1
           /\ \E k \in 1..Len(parts) : IsText(parts[k])

\* C26: the step that puts a tool-call part into approval-requested attaches
\* the approval id to that part, with no decision yet; the step that records
\* the decision for a part carrying an approval moves that same part, its
\* approval id kept, to approval-responded.
C26_ApprovalRequestedThenResponded ==
    [][\A id \in ToolCallIdsIn(messages) :
          HasToolCallPart(messages', id) =>
              LET p == ToolCallPartIn(messages, id)
                  q == ToolCallPartIn(messages', id)
              IN /\ (p.state # "approval-requested" /\ q.state = "approval-requested")
                      => (q.approvalId # NoApproval /\ q.approved = "unset")
                 /\ (p.approvalId # NoApproval /\ p.approved = "unset"
                        /\ q.approved # "unset")
                      => (q.state = "approval-responded" /\ q.approvalId = p.approvalId)
      ]_vars

\* C26 witness: a tool call whose approval was requested and then denied: the
\* part carries the approval id, the decision and approval-responded
C26_Witness ==
    \E id \in ToolCallIdsIn(messages) :
        /\ ToolCallPartIn(messages, id).approvalId = id
        /\ ToolCallPartIn(messages, id).approved = "false"
        /\ ToolCallPartIn(messages, id).state = "approval-responded"

\* where a tool-call part stands in the lifecycle: terminal once it has an
\* output, otherwise by its state (input-streaming and input-complete are the
\* pending call); "executing" is no state of a part
Lifecycle(part) ==
    IF part.output # "undefined" THEN "terminal"
    ELSE IF part.state = "approval-requested" THEN "approval-requested"
    ELSE IF part.state = "approval-responded" THEN "approval-responded"
    ELSE "pending"

\* the moves of the lifecycle, the unobservable "executing" contracted
LifecycleMoves ==
    { <<"pending", "terminal">>,
      <<"pending", "approval-requested">>,
      <<"approval-requested", "approval-responded">>,
      <<"approval-responded", "terminal">> }

\* C27: in every step every tool call stays where it is in the lifecycle or
\* makes one of its moves (pending to terminal, or pending to
\* approval-requested to approval-responded to terminal), and a call that has
\* its output is not changed any more.
C27_ToolCallLifecycleOnlyForward ==
    [][\A id \in ToolCallIdsIn(messages) :
          HasToolCallPart(messages', id) =>
              LET p == ToolCallPartIn(messages, id)
                  q == ToolCallPartIn(messages', id)
              IN /\ \/ Lifecycle(q) = Lifecycle(p)
                    \/ <<Lifecycle(p), Lifecycle(q)>> \in LifecycleMoves
                 /\ Lifecycle(p) = "terminal" => q = p
      ]_vars

\* the first stream has ended, its assistant message carries exactly one tool
\* call, and the onToolCall executor has returned that call's value
OneToolCallExecuted ==
    /\ onToolCall
    /\ toolExecs = {}
    /\ Len(streams) >= 1
    /\ streams[1].status = "closed"
    /\ ~streams[1].aborted
    /\ \E i \in 1..Len(messages) :
          /\ messages[i].id = streams[1].msgId
          /\ Len(ToolCallParts(messages[i])) = 1
          /\ ToolCallParts(messages[i])[1].output = "value"

\* C30: once the stream that carried one complete tool call has ended and the
\* tool's executor has returned, the call's result is recorded once with the
\* returned value, and the connection has been called again with the updated
\* messages: one continuation, the second stream of the conversation.
C30_ToolResultContinuesTheRun ==
    OneToolCallExecuted =>
        /\ ContinueCount = 1
        /\ Len(streams) = 2
        /\ streams[2].origin = "continue"

\* nothing is left to cancel: the client is not loading and every stream that
\* is still open has been aborted (idle, terminal, or stopped before)
NothingToCancel ==
    /\ ~isLoading
    /\ \A n \in 1..Len(streams) : streams[n].status = "open" => streams[n].aborted

\* C31: stop() on a conversation with nothing left to cancel (idle, ended, or
\* stopped before) changes neither the messages, the loading flag, the error
\* nor the streams, their aborted marks included.
C31_StopIsIdempotent ==
    [][(Stop /\ NothingToCancel) =>
           UNCHANGED <<messages, isLoading, error, streams, connectCalls, toolExecs>>
      ]_vars

\* C31 witness: stop() was called while a stream was open, the stream is
\* aborted and still open, and stop() can be called a second time
C31_Witness ==
    /\ cancelled
    /\ NothingToCancel
    /\ \E n \in 1..Len(streams) : streams[n].status = "open" /\ streams[n].aborted

\* C32: while the client holds an error, it starts no continuation on its
\* own: a continuation stream is started only in a step in which the
\* application supplies a tool result or an approval decision, not when an
\* onToolCall promise of the failed turn settles.
C32_NoContinuationAfterError ==
    [][(error # "undefined" /\ toolExecs' # toolExecs) =>
           /\ ContinueCount' = ContinueCount
           /\ error' = error
      ]_vars

\* the steps the client takes by itself are not postponed forever: a
\* connection that was requested is opened, an open stream ends, an onToolCall
\* promise settles.  The application's own calls (sendMessage, addToolResult)
\* may never come.
ReducerFairness ==
    /\ WF_vars(\E n \in 1..Len(streams) : AppendConnects(n))
    /\ WF_vars(\E n \in 1..Len(streams) : StreamFinishes(n))
    /\ WF_vars(ToolCallResolves \/ ToolCallRejects)

FairReducer == SpecReducer /\ ReducerFairness

\* every tool call of the latest assistant message has its output or its
\* approval response, and the client can still open a stream
ContinuationDue == ShouldAutoSend(messages) /\ Len(streams) < MaxStreams

\* C34: whenever every tool call of the latest assistant message is complete,
\* a continuation stream is eventually started (or the conversation has moved
\* on to a newer assistant message), also when the last result arrived while
\* the stream that carried the call was still loading.
C34_ContinuationEventuallyStarts ==
    \A c \in 0..MaxStreams :
        (ContinuationDue /\ ContinueCount = c) ~> (ContinueCount > c \/ ~ContinuationDue)

\* a stream of the client is under way: its connection was requested or it is
\* open and was not aborted
StreamUnderWay ==
    \E n \in 1..Len(streams) :
        \/ streams[n].status = "awaitResponse"
        \/ (streams[n].status = "open" /\ ~streams[n].aborted)

\* C35: isLoading is true exactly while a stream that the client started is
\* under way: from the start of append / continueFlow until the stream has
\* finished, failed or been aborted.
C35_LoadingExactlyWhileStreamUnderWay == isLoading <=> StreamUnderWay

\* how often the message with this id stands in the list
Occurrences(msgs, id) == Cardinality({ i \in 1..Len(msgs) : msgs[i].id = id })

\* C36: reload() keeps the messages up to and including the last user message
\* and drops the rest, so that the list then ends with that user message,
\* which stands in it exactly once; the new assistant message follows when
\* the stream is connected.
C36_ReloadKeepsLastUserMessageOnce ==
    [][Reload =>
          LET last == LastUserIndex(messages)
          IN /\ SubSeq(messages', 1, last) = SubSeq(messages, 1, last)
             /\ messages'[Len(messages')] = messages[last]
             /\ Occurrences(messages', messages[last].id) = 1
      ]_vars

\* C37: when a stream that was aborted by stop() ends, the client's error
\* stays as it was (no error is recorded for the abort), whether the stream
\* was started by append or by an automatic continuation.
C37_AbortIsNotAnError ==
    [][\A n \in 1..Len(streams) :
          (/\ streams[n].status = "open"
           /\ streams[n].aborted
           /\ Len(streams') >= n
           /\ streams'[n].status = "closed")
          => error' = error
      ]_vars

(***************************************************************************)
(* The agent loop (specification section 4.2 and 4.3)                      *)
(*                                                                         *)
(*   Idle -> Streaming -> {Resolving -> Streaming}* ->                     *)
(*       Terminal{Stopped | Errored | Cancelled | BudgetExceeded}          *)
(***************************************************************************)
LoopTerminal == {"Stopped", "Errored", "Cancelled", "BudgetExceeded"}
CallTerminal == {"output-available", "output-error"}

UserMsg == [role |-> "user", toolCalls |-> << >>, toolCallId |-> << >>, state |-> ""]
AssistantMsg(toolCalls) ==
    [role |-> "assistant", toolCalls |-> toolCalls, toolCallId |-> << >>, state |-> ""]
ToolMsg(call) ==
    [role |-> "tool", toolCalls |-> << >>, toolCallId |-> call.id, state |-> call.state]

LoopInit ==
    /\ loopState = "Idle"
    /\ iteration = 0
    /\ history = <<UserMsg>>
    /\ maxIterations \in 1..MaxIterations
    /\ adapterInvocations = 0
    /\ calls = << >>

\* Idle -> Streaming: the adapter is invoked with the current messages
LoopStart ==
    /\ loopState = "Idle"
    /\ loopState' = "Streaming"
    /\ adapterInvocations' = adapterInvocations + 1
    /\ UNCHANGED <<iteration, history, maxIterations, calls>>
    /\ UNCHANGED notLoopVars

\* Streaming -> Terminal{Stopped}: RunFinished with stop, length or
\* content_filter; the assistant message is appended
LoopRunFinishedStop ==
    /\ loopState = "Streaming"
    /\ loopState' = "Stopped"
    /\ history' = Append(history, AssistantMsg(<< >>))
    /\ UNCHANGED <<iteration, maxIterations, adapterInvocations, calls>>
    /\ UNCHANGED notLoopVars

\* the tool calls of turn t: call k has the id <<t, k>>; a call whose tool
\* has no executor (or needs approval) is gated
TurnCalls(t, gates) ==
    [k \in 1..Len(gates) |-> [id |-> <<t, k>>, gated |-> gates[k], state |-> "pending"]]

\* Streaming -> Resolving: RunFinished with tool_calls; the assistant message
\* with its tool calls is appended
LoopRunFinishedToolCalls ==
    /\ loopState = "Streaming"
    /\ \E n \in 1..MaxTurnCalls : \E gates \in [1..n -> BOOLEAN] :
          /\ calls' = TurnCalls(iteration, gates)
          /\ history' = Append(history,
                               AssistantMsg([k \in 1..n |-> <<iteration, k>>]))
    /\ loopState' = "Resolving"
    /\ UNCHANGED <<iteration, maxIterations, adapterInvocations>>
    /\ UNCHANGED notLoopVars

\* any -> Terminal{Errored}: RunError from the adapter
LoopRunError ==
    /\ loopState = "Streaming"
    /\ loopState' = "Errored"
    /\ UNCHANGED <<iteration, history, maxIterations, adapterInvocations, calls>>
    /\ UNCHANGED notLoopVars

SetCall(k, state) ==
    /\ calls' = [calls EXCEPT ![k].state = state]
    /\ UNCHANGED <<loopState, iteration, history, maxIterations, adapterInvocations>>
    /\ UNCHANGED notLoopVars

\* section 4.2: a tool with an executor that needs no approval is invoked
LoopExecute(k) ==
    /\ loopState = "Resolving"
    /\ calls[k].state = "pending" /\ ~calls[k].gated
    /\ SetCall(k, "executing")

\* section 4.2: the executor returns, or throws (recoverable)
LoopExecuted(k) ==
    /\ loopState = "Resolving"
    /\ calls[k].state = "executing"
    /\ \E outcome \in CallTerminal : SetCall(k, outcome)

\* section 4.2: no executor, or approval required: ApprovalRequested
LoopRequestApproval(k) ==
    /\ loopState = "Resolving"
    /\ calls[k].state = "pending" /\ calls[k].gated
    /\ SetCall(k, "approval-requested")

\* section 4.2: the external decision arrives
LoopApprovalDecision(k) ==
    /\ loopState = "Resolving"
    /\ calls[k].state = "approval-requested"
    /\ SetCall(k, "approval-responded")

\* section 4.2: a rejected call ends as output-error, an approved one
\* executes (or the approval itself supplied the output)
LoopAfterDecision(k) ==
    /\ loopState = "Resolving"
    /\ calls[k].state = "approval-responded"
    /\ \E next \in {"output-error", "executing", "output-available"} : SetCall(k, next)

\* mutant of StrategyExceeded: the bound is checked one iteration late
StrategyExceeded_OneLate(iterationCount, max) == iterationCount > max

\* section 4.3: the maximum-iterations bound is exceeded
StrategyExceeded(iterationCount, max) == iterationCount >= max

\* Resolving -> Streaming, or -> Terminal{BudgetExceeded}: all calls are
\* terminal; their results are appended in the order of the calls and the
\* iteration is counted
LoopResolved ==
    /\ loopState = "Resolving"
    /\ \A k \in 1..Len(calls) : calls[k].state \in CallTerminal
    /\ history' = history \o [k \in 1..Len(calls) |-> ToolMsg(calls[k])]
    /\ iteration' = iteration + 1
    /\ IF StrategyExceeded(iteration + 1, maxIterations)
       THEN /\ loopState' = "BudgetExceeded"
            /\ UNCHANGED adapterInvocations
       ELSE /\ loopState' = "Streaming"
            /\ adapterInvocations' = adapterInvocations + 1
    /\ UNCHANGED <<maxIterations, calls>>
    /\ UNCHANGED notLoopVars

\* any -> Terminal{Cancelled}; cancelling a terminal loop is a no-op
LoopCancel ==
    /\ loopState \notin LoopTerminal
    /\ loopState' = "Cancelled"
    /\ UNCHANGED <<iteration, history, maxIterations, adapterInvocations, calls>>
    /\ UNCHANGED notLoopVars

LoopNext ==
    \/ LoopStart
    \/ LoopRunFinishedStop
    \/ LoopRunFinishedToolCalls
    \/ LoopRunError
    \/ \E k \in 1..Len(calls) : LoopExecute(k)
    \/ \E k \in 1..Len(calls) : LoopExecuted(k)
    \/ \E k \in 1..Len(calls) : LoopRequestApproval(k)
    \/ \E k \in 1..Len(calls) : LoopApprovalDecision(k)
    \/ \E k \in 1..Len(calls) : LoopAfterDecision(k)
    \/ LoopResolved
    \/ LoopCancel

InitLoop == LoopInit /\ AdapterIdle /\ ClientIdle /\ LegacyOff /\ ResponseOff /\ DevtoolsOff

SpecLoop == InitLoop /\ [][LoopNext]_vars

\* the tool calls the assistant message at position i of the history asked for
\* are answered, in order, by the tool messages that follow it
AnsweredInOrder(i) ==
    /\ Len(history) >= i + Len(history[i].toolCalls)
    /\ \A k \in 1..Len(history[i].toolCalls) :
          /\ history[i + k].role = "tool"
          /\ history[i + k].toolCallId = history[i].toolCalls[k]

\* C8: with maxIterations = 1 and a model that requests tool calls in its
\* turn, the adapter is never invoked a second time; once the turn is resolved
\* the loop is in BudgetExceeded with iteration = 1, one adapter invocation,
\* and a history that still holds the user message, the first assistant
\* message with its tool calls and the result of every call.
C8_BudgetExceededAfterOneIteration ==
    maxIterations = 1 =>
        /\ adapterInvocations <= 1
        /\ iteration >= 1 => loopState = "BudgetExceeded"
        /\ loopState = "BudgetExceeded" =>
              /\ iteration = 1
              /\ adapterInvocations = 1
              /\ history[1] = UserMsg
              /\ history[2].role = "assistant"
              /\ Len(history[2].toolCalls) >= 1
              /\ AnsweredInOrder(2)
              /\ Len(history) = 2 + Len(history[2].toolCalls)

\* C8 witness: the budget of one iteration is exhausted after a turn with
\* two tool calls
C8_Witness ==
    /\ maxIterations = 1
    /\ loopState = "BudgetExceeded"
    /\ Len(calls) = 2

(***************************************************************************)
(* The chatStream of the other providers: they yield the legacy chunks     *)
(* content / tool_call / done / error.                                     *)
(***************************************************************************)
\* the stop reasons of the Anthropic Messages API
AnthropicStopReasons == {"end_turn", "max_tokens", "stop_sequence", "tool_use"}

\* the finish reasons of the OpenAI Chat Completions API
OpenAIFinishReasons == {"stop", "length", "content_filter", "tool_calls", "function_call"}

\* ChatCompletionChunk.finishReason (types.ts 151), null left out
LegacyFinishReasons == {"stop", "length", "content_filter"}

\* the events of an Anthropic message stream
AnthropicEvents ==
    { [type |-> "content_block_start", block |-> b, text |-> << >>, stop_reason |-> NoFinish] :
          b \in {"text", "tool_use"} }
    \cup { [type |-> "content_block_delta", block |-> "text_delta",
            text |-> <<"x">>, stop_reason |-> NoFinish] }
    \cup { [type |-> "content_block_delta", block |-> "input_json_delta",
            text |-> a, stop_reason |-> NoFinish] : a \in ArgFragments \ {NoArgs} }
    \cup { [type |-> "message_delta", block |-> "", text |-> << >>, stop_reason |-> r] :
          r \in AnthropicStopReasons \cup {NoFinish} }
    \cup { [type |-> "message_stop", block |-> "", text |-> << >>, stop_reason |-> NoFinish] }

\* the chunks of an OpenAI stream: the same shapes as the Groq vendor's, with
\* OpenAI's finish reasons
OpenAIChunks ==
    { Chunk(FALSE, NoContent, NoToolCalls, NoFinish) }
    \cup { Chunk(TRUE, <<"x">>, NoToolCalls, NoFinish) }
    \cup { Chunk(TRUE, NoContent,
                 <<[index |-> 0, id |-> id, name |-> "lookup", arguments |-> <<"{">>]>>,
                 NoFinish) : id \in {"", "call_0"} }
    \cup { Chunk(TRUE, c, NoToolCalls, f) : c \in {NoContent, <<"x">>}, f \in OpenAIFinishReasons }

\* the ChatCompletionChunks handed to convertLegacyStream
LegacyChunks ==
    { [content |-> c, finishReason |-> f] :
          c \in {NoContent, <<"x">>}, f \in LegacyFinishReasons \cup {NoFinish} }

LegacyState ==
    [accumulatedContent |-> legacyAccumulated, toolCallsMap |-> toolCallsMap,
     out |-> legacyOut]

SetLegacyState(st) ==
    /\ legacyAccumulated' = st.accumulatedContent
    /\ toolCallsMap' = st.toolCallsMap
    /\ legacyOut' = st.out

ContentChunk(delta, content) == [type |-> "content", delta |-> delta, content |-> content]
DoneChunk(finishReason) == [type |-> "done", finishReason |-> finishReason]
ErrorChunk == [type |-> "error"]

\* anthropic-adapter.ts 316-319
AnthropicFinishReason(stop_reason) ==
    IF stop_reason = "tool_use" THEN "tool_calls" ELSE stop_reason

\* anthropic-adapter.ts 255-331, the body of the for-await loop
AnthropicEvent(st, event) ==
    IF event.type = "content_block_start"
    THEN IF event.block = "tool_use"
         THEN [st EXCEPT !.toolCallsMap =
                  Append(@, [id |-> VendorId(Len(st.toolCallsMap)),
                             name |-> VendorName(Len(st.toolCallsMap)),
                             input |-> NoArgs])]
         ELSE st
    ELSE IF event.type = "content_block_delta"
    THEN IF event.block = "text_delta"
         THEN LET acc == st.accumulatedContent \o event.text
              IN [st EXCEPT !.accumulatedContent = acc,
                            !.out = Append(@, ContentChunk(event.text, acc))]
         ELSE IF Len(st.toolCallsMap) > 0
         THEN LET k == Len(st.toolCallsMap)
              IN [st EXCEPT !.toolCallsMap[k].input = @ \o event.text,
                            !.out = Append(@, [type |-> "tool_call",
                                               toolCallId |-> st.toolCallsMap[k].id,
                                               arguments |-> event.text,
                                               index |-> k - 1])]
         ELSE st
    ELSE IF event.type = "message_stop"
    THEN [st EXCEPT !.out = Append(@, DoneChunk("stop"))]
    ELSE IF event.stop_reason # NoFinish
    THEN [st EXCEPT !.out = Append(@, DoneChunk(AnthropicFinishReason(event.stop_reason)))]
    ELSE st

\* openai-adapter.ts 628-648: one tool_call chunk per delta
OpenAIToolCallChunks(deltas) ==
    [k \in 1..Len(deltas) |->
        [type |-> "tool_call",
         toolCallId |-> IF deltas[k].id # "" THEN deltas[k].id ELSE "call_now",
         arguments |-> deltas[k].arguments,
         index |-> deltas[k].index]]

\* openai-adapter.ts 611-672, the body of the for-await loop
OpenAIChunk(st, c) ==
    IF ~c.hasChoice THEN st
    ELSE LET acc == st.accumulatedContent \o c.content
             content == IF c.content # NoContent
                        THEN <<ContentChunk(c.content, acc)>> ELSE << >>
             done == IF c.finish_reason # NoFinish
                     THEN <<DoneChunk(c.finish_reason)>> ELSE << >>
         IN [st EXCEPT !.accumulatedContent = acc,
                       !.out = @ \o content \o OpenAIToolCallChunks(c.tool_calls) \o done]

\* stream-utils.ts 14-38, the body of the for-await loop
ConvertLegacyChunk(st, c) ==
    LET acc == st.accumulatedContent \o c.content
        content == IF c.content # NoContent
                   THEN <<ContentChunk(c.content, acc)>> ELSE << >>
        done == IF c.finishReason # NoFinish
                THEN <<DoneChunk(c.finishReason)>> ELSE << >>
    IN [st EXCEPT !.accumulatedContent = acc, !.out = @ \o content \o done]

LegacyKinds == {"anthropic", "openai", "convert"}

LegacyInit ==
    /\ legacyKind \in LegacyKinds
    /\ legacyPc = "create"
    /\ legacyAccumulated = << >>
    /\ toolCallsMap = << >>
    /\ legacyOut = << >>
    /\ legacyRead = 0

\* anthropic-adapter.ts 245, openai-adapter.ts 609-611, ollama 692: the
\* request resolves with the vendor stream
LegacyCreateResolves ==
    /\ legacyPc = "create"
    /\ legacyPc' = "stream"
    /\ UNCHANGED <<legacyKind, legacyAccumulated, toolCallsMap, legacyOut, legacyRead>>
    /\ UNCHANGED notLegacyVars

\* the request rejects: it is awaited outside the try, the generator throws
LegacyCreateRejects ==
    /\ legacyPc = "create"
    /\ legacyPc' = "thrown"
    /\ UNCHANGED <<legacyKind, legacyAccumulated, toolCallsMap, legacyOut, legacyRead>>
    /\ UNCHANGED notLegacyVars

\* one event of the vendor stream is consumed
LegacyStreamEvent ==
    /\ legacyPc = "stream"
    /\ legacyRead < MaxVendorEvents
    /\ \/ /\ legacyKind = "anthropic"
          /\ \E event \in AnthropicEvents :
                SetLegacyState(AnthropicEvent(LegacyState, event))
       \/ /\ legacyKind = "openai"
          /\ \E c \in OpenAIChunks : SetLegacyState(OpenAIChunk(LegacyState, c))
       \/ /\ legacyKind = "convert"
          /\ \E c \in LegacyChunks : SetLegacyState(ConvertLegacyChunk(LegacyState, c))
    /\ legacyRead' = legacyRead + 1
    /\ UNCHANGED <<legacyKind, legacyPc>>
    /\ UNCHANGED notLegacyVars

\* the vendor stream is exhausted; the generator returns
LegacyStreamEnds ==
    /\ legacyPc = "stream"
    /\ legacyPc' = "done"
    /\ UNCHANGED <<legacyKind, legacyAccumulated, toolCallsMap, legacyOut, legacyRead>>
    /\ UNCHANGED notLegacyVars

\* reading the vendor stream throws: anthropic-adapter.ts 333-344 and
\* openai-adapter.ts 674-685 yield an error chunk; convertLegacyStream has no
\* catch and throws
LegacyStreamThrows ==
    /\ legacyPc = "stream"
    /\ IF legacyKind = "convert"
       THEN /\ legacyPc' = "thrown"
            /\ UNCHANGED legacyOut
       ELSE /\ legacyPc' = "done"
            /\ legacyOut' = Append(legacyOut, ErrorChunk)
    /\ UNCHANGED <<legacyKind, legacyAccumulated, toolCallsMap, legacyRead>>
    /\ UNCHANGED notLegacyVars

LegacyNext ==
    \/ LegacyCreateResolves
    \/ LegacyCreateRejects
    \/ LegacyStreamEvent
    \/ LegacyStreamEnds
    \/ LegacyStreamThrows

\* the Groq adapter is not the provider in use
AdapterOff ==
    /\ adapterPc = "off"
    /\ hasEmittedRunStarted = FALSE
    /\ accumulatedContent = << >>
    /\ hasEmittedTextMessageStart = FALSE
    /\ toolCallsInProgress = << >>
    /\ events = << >>
    /\ chunksRead = 0
    /\ chunk = NoChunk
    /\ abortSignal = NotAborted

\* one provider is in use: the Groq adapter, or one of the others
InitProviders ==
    /\ ClientIdle
    /\ LoopIdle
    /\ ResponseOff
    /\ DevtoolsOff
    /\ \/ AdapterInit /\ abortSignal = NotAborted /\ LegacyOff
       \/ AdapterOff /\ LegacyInit

ProvidersNext ==
    \/ CreateResolves
    \/ CreateRejects
    \/ StreamChunk
    \/ StreamEnds
    \/ StreamThrows
    \/ LegacyNext

SpecProviders == InitProviders /\ [][ProvidersNext]_vars

\* the positions of the terminal chunks (done, error) among the yielded chunks
TerminalChunks(out) == { k \in 1..Len(out) : out[k].type \in {"done", "error"} }

\* C29: when the chatStream of the Anthropic adapter, of the OpenAI adapter or
\* of convertLegacyStream (Ollama) has ended, it has yielded exactly one
\* terminal chunk, a done chunk or an error chunk, and that chunk is the last
\* one it yielded.
C29_LegacyStreamEndsWithOneTerminalChunk ==
    legacyPc \in {"done", "thrown"} =>
        /\ Cardinality(TerminalChunks(legacyOut)) = 1
        /\ TerminalChunks(legacyOut) = {Len(legacyOut)}

(***************************************************************************)
(* streamToResponse: the chunk stream as a text/event-stream body          *)
(***************************************************************************)
\* the StreamChunks a source can yield
SourceChunks == { ContentChunk(<<"x">>, <<"x">>), DoneChunk("stop"), ErrorChunk }

\* JSON.stringify(chunk), as the text's tokens: the braces around the type and,
\* where the chunk has them, its further fields
Stringify(c) ==
    IF c.type = "content" THEN <<"{", "content", "delta">> \o c.delta \o <<"}">>
    ELSE IF c.type = "done" THEN <<"{", "done", c.finishReason, "}">>
    ELSE <<"{", c.type, "}">>

\* stream-utils.ts 361: `data: ${JSON.stringify(chunk)}\n\n`
DataRecord(c) == <<"data: ">> \o Stringify(c) \o <<"\n\n">>

\* stream-utils.ts 364: "data: [DONE]\n\n"
DoneRecord == <<"data: ", "[DONE]", "\n\n">>

\* stream-utils.ts 354-358: the Response is built and start(controller) runs
ResponseInit ==
    /\ controller = "open"
    /\ sourceChunks = << >>
    /\ enqueued = << >>

\* stream-utils.ts 360-363: the source yields a chunk, its record is enqueued
ResponseEnqueue ==
    /\ controller = "open"
    /\ Len(sourceChunks) < MaxSourceChunks
    /\ \E c \in SourceChunks :
          /\ sourceChunks' = Append(sourceChunks, c)
          /\ enqueued' = Append(enqueued, DataRecord(c))
    /\ UNCHANGED controller
    /\ UNCHANGED notResponseVars

\* stream-utils.ts 364-365: the source returns; the sentinel, then close()
ResponseSourceReturns ==
    /\ controller = "open"
    /\ enqueued' = Append(enqueued, DoneRecord)
    /\ controller' = "closed"
    /\ UNCHANGED sourceChunks
    /\ UNCHANGED notResponseVars

\* stream-utils.ts 366-368: the source throws; controller.error(error)
ResponseSourceThrows ==
    /\ controller = "open"
    /\ controller' = "errored"
    /\ UNCHANGED <<sourceChunks, enqueued>>
    /\ UNCHANGED notResponseVars

ResponseNext ==
    \/ ResponseEnqueue
    \/ ResponseSourceReturns
    \/ ResponseSourceThrows

InitResponse ==
    ResponseInit /\ AdapterIdle /\ ClientIdle /\ LoopIdle /\ LegacyOff /\ DevtoolsOff

SpecResponse == InitResponse /\ [][ResponseNext]_vars

\* the records of a chunk sequence, one per chunk, in order
DataRecords(chunks) == [k \in 1..Len(chunks) |-> DataRecord(chunks[k])]

\* C28: while the response is written its body holds one data record per
\* chunk of the source, in order; once the response has ended, in whatever
\* way the source ended, the body is those records followed by the sentinel
\* record "data: [DONE]".
C28_DoneSentinelIsLastRecord ==
    /\ controller = "open" => enqueued = DataRecords(sourceChunks)
    /\ controller \in {"closed", "errored"} =>
           enqueued = Append(DataRecords(sourceChunks), DoneRecord)

(***************************************************************************)
(* Reading the yielded event sequence                                      *)
(***************************************************************************)
IsTerminal(e) == e.type \in {"RUN_FINISHED", "RUN_ERROR"}
EventsOfType(evs, t) == { i \in 1..Len(evs) : evs[i].type = t }
TerminalEvents(evs) == { i \in 1..Len(evs) : IsTerminal(evs[i]) }

RECURSIVE ConcatArgs(_, _)
\* the concatenation, in arrival order, of the TOOL_CALL_ARGS deltas of one id
ConcatArgs(evs, id) ==
    IF evs = << >> THEN << >>
    ELSE (IF Head(evs).type = "TOOL_CALL_ARGS" /\ Head(evs).toolCallId = id
          THEN Head(evs).delta ELSE << >>) \o ConcatArgs(Tail(evs), id)

(***************************************************************************)
(* Claims about the adapter's event sequence                               *)
(***************************************************************************)

\* C1: every event sequence the adapter produces holds exactly one terminal
\* event (RUN_FINISHED or RUN_ERROR, never both, never none), and no event
\* follows it.
C1_ExactlyOneTerminalAndLast ==
    /\ \A i \in TerminalEvents(events) : i = Len(events)
    /\ (adapterPc = "done" /\ events # << >>) =>
           Cardinality(TerminalEvents(events)) = 1

\* C2: for every tool call, the TOOL_CALL_ARGS deltas of its id concatenate to
\* a text that parses as JSON whenever its TOOL_CALL_END carries a non-empty
\* input, and fragments that arrived before id and name were known are part of
\* that concatenation (it equals the buffered argument string).
C2_ArgsDeltasConcatenateToArguments ==
    /\ \A i \in EventsOfType(events, "TOOL_CALL_END") :
          events[i].input # {} =>
              JSONParse(ConcatArgs(SubSeq(events, 1, i), events[i].toolCallId)).ok
    /\ \A k \in 1..Len(toolCallsInProgress) :
          toolCallsInProgress[k].started =>
              ConcatArgs(events, toolCallsInProgress[k].id)
                  = toolCallsInProgress[k].arguments

\* C3: a RUN_ERROR is always preceded by a RUN_STARTED of the same stream.
C3_RunErrorAfterRunStarted ==
    \A i \in EventsOfType(events, "RUN_ERROR") :
        \E j \in 1..(i - 1) : events[j].type = "RUN_STARTED"

\* C4: a non-empty event sequence holds exactly one RUN_STARTED, and it is
\* the first event.
C4_RunStartedOnceAndFirst ==
    events # << >> =>
        /\ events[1].type = "RUN_STARTED"
        /\ Cardinality(EventsOfType(events, "RUN_STARTED")) = 1

\* C5: TOOL_CALL_START is emitted at most once per toolCallId, carries a
\* non-empty toolCallId and toolName, and has been emitted exactly once for
\* every call whose id and name are both known, however id, name and
\* arguments are split over deltas and indices.
C5_ToolCallStartOncePerId ==
    /\ \A i \in EventsOfType(events, "TOOL_CALL_START") :
          /\ events[i].toolCallId # ""
          /\ events[i].toolName # ""
          /\ \A j \in EventsOfType(events, "TOOL_CALL_START") :
                events[j].toolCallId = events[i].toolCallId => j = i
    /\ \A k \in 1..Len(toolCallsInProgress) :
          LET tc == toolCallsInProgress[k]
              starts == { i \in EventsOfType(events, "TOOL_CALL_START") :
                            events[i].toolCallId = tc.id }
          IN IF tc.id # "" /\ tc.name # ""
             THEN Cardinality(starts) = 1
             ELSE \A i \in EventsOfType(events, "TOOL_CALL_START") :
                      events[i].index # tc.index

\* C5 witness: two calls have started, one of them only after a delta that
\* carried arguments but not yet both id and name.
C5_Witness ==
    /\ Cardinality(EventsOfType(events, "TOOL_CALL_START")) = 2
    /\ \E k \in 1..Len(toolCallsInProgress) :
          /\ toolCallsInProgress[k].started
          /\ ConcatArgs(events, toolCallsInProgress[k].id)
                 # toolCallsInProgress[k].arguments

\* C9: cancellation produces no events: a token cancelled before consumption
\* begins gives an empty event sequence, and after a cancellation mid-stream
\* no terminal event is emitted.
C9_CancellationEmitsNothing ==
    abortSignal.aborted =>
        /\ abortSignal.phase = "create" => events = << >>
        /\ \A i \in TerminalEvents(events) : i <= abortSignal.at

\* the vendor's finish signal has just been processed
JustFinished ==
    /\ adapterPc = "stream"
    /\ chunk.hasChoice
    /\ chunk.finish_reason # NoFinish

\* C13: whenever a tool call was assembled before the vendor's finish signal,
\* RUN_FINISHED carries finishReason tool_calls, whatever reason the vendor
\* reported.
C13_ToolCallsFinishReason ==
    /\ \A i \in EventsOfType(events, "RUN_FINISHED") :
          (\E j \in 1..(i - 1) : events[j].type = "TOOL_CALL_END")
              => events[i].finishReason = "tool_calls"
    /\ (JustFinished /\ Len(toolCallsInProgress) > 0) =>
          events[Len(events)] = [type |-> "RUN_FINISHED", finishReason |-> "tool_calls"]

\* C13 witness: the vendor reported content_filter for a stream with a tool
\* call, and RUN_FINISHED says tool_calls
C13_Witness ==
    /\ JustFinished
    /\ chunk.finish_reason = "content_filter"
    /\ Len(toolCallsInProgress) > 0
    /\ events[Len(events)] = [type |-> "RUN_FINISHED", finishReason |-> "tool_calls"]

\* C14: every completion event of every provider adapter (RUN_FINISHED, or the
\* legacy done chunk) carries a finishReason of stop, length, content_filter
\* or tool_calls.
C14_FinishReasonNormalized ==
    /\ \A i \in EventsOfType(events, "RUN_FINISHED") :
          events[i].finishReason \in FinishReasons
    /\ \A i \in EventsOfType(legacyOut, "done") :
          legacyOut[i].finishReason \in FinishReasons

RECURSIVE ConcatDeltas(_, _)
\* the concatenation, in order, of the deltas of the events of type t
ConcatDeltas(evs, t) ==
    IF evs = << >> THEN << >>
    ELSE (IF Head(evs).type = t THEN Head(evs).delta ELSE << >>)
             \o ConcatDeltas(Tail(evs), t)

\* C15: the content of the n-th text delta event of a stream is the
\* concatenation of the deltas of the text delta events 1..n, for the Groq
\* adapter and for the adapters that yield legacy content chunks.
C15_AccumulatedContentIsConcatenation ==
    /\ \A i \in EventsOfType(events, "TEXT_MESSAGE_CONTENT") :
          events[i].content = ConcatDeltas(SubSeq(events, 1, i), "TEXT_MESSAGE_CONTENT")
    /\ \A i \in EventsOfType(legacyOut, "content") :
          legacyOut[i].content = ConcatDeltas(SubSeq(legacyOut, 1, i), "content")

\* C15 witness: a third text delta arrives after other events, and its
\* content is three characters long
C15_Witness ==
    \E i \in EventsOfType(events, "TEXT_MESSAGE_CONTENT") :
        /\ Len(events[i].content) = 3
        /\ Len(events[i].delta) = 1

\* the identities carried by the TOOL_CALL_END events, in order
EndedCalls(evs) ==
    LET ends == SelectSeq(evs, LAMBDA e : e.type = "TOOL_CALL_END")
    IN [k \in 1..Len(ends) |-> <<ends[k].toolCallId, ends[k].toolName>>]

\* the identities of the buffered tool calls, in order
BufferedCalls(tcs) == [k \in 1..Len(tcs) |-> <<tcs[k].id, tcs[k].name>>]

\* C16: once the vendor has signalled finish, the stream holds exactly one
\* TOOL_CALL_END for each buffered tool call, and every TOOL_CALL_END
\* precedes every TEXT_MESSAGE_END and every RUN_FINISHED.
C16_OneToolCallEndPerCallBeforeEnd ==
    /\ JustFinished => EndedCalls(events) = BufferedCalls(toolCallsInProgress)
    /\ \A i \in EventsOfType(events, "TOOL_CALL_END") :
          \A j \in EventsOfType(events, "TEXT_MESSAGE_END")
                     \cup EventsOfType(events, "RUN_FINISHED") : i < j

\* C17: a tool call whose argument string is empty or does not parse is
\* closed with input {}, and the stream goes on to RUN_FINISHED: after the
\* finish signal every TOOL_CALL_END of such a call carries {}, RUN_FINISHED is
\* the last event and no RUN_ERROR was yielded.
C17_UnparsableArgumentsGiveEmptyInput ==
    /\ \A i \in EventsOfType(events, "TOOL_CALL_END") :
          events[i].input \in {{}, {"a"}}
    /\ JustFinished =>
          /\ events[Len(events)].type = "RUN_FINISHED"
          /\ EventsOfType(events, "RUN_ERROR") = {}
          /\ \A k \in 1..Len(toolCallsInProgress) :
                ~JSONParse(toolCallsInProgress[k].arguments).ok =>
                    \E i \in EventsOfType(events, "TOOL_CALL_END") :
                        /\ events[i].toolCallId = toolCallsInProgress[k].id
                        /\ events[i].toolName = toolCallsInProgress[k].name
                        /\ events[i].input = {}

\* C17 witness: the finish signal closes one call whose arguments are the
\* text "{" and one call without arguments
C17_Witness ==
    /\ JustFinished
    /\ \E k \in 1..Len(toolCallsInProgress) : toolCallsInProgress[k].arguments = <<"{">>
    /\ \E k \in 1..Len(toolCallsInProgress) : toolCallsInProgress[k].arguments = NoArgs
    /\ events[Len(events)].type = "RUN_FINISHED"

\* C18: TEXT_MESSAGE_END is yielded at most once per stream, only after a
\* TEXT_MESSAGE_START, and a RUN_FINISHED that follows a TEXT_MESSAGE_START is
\* preceded by exactly one TEXT_MESSAGE_END.
C18_TextEndOnceAfterTextStart ==
    /\ Cardinality(EventsOfType(events, "TEXT_MESSAGE_END")) <= 1
    /\ \A i \in EventsOfType(events, "TEXT_MESSAGE_END") :
          \E j \in 1..(i - 1) : events[j].type = "TEXT_MESSAGE_START"
    /\ \A i \in EventsOfType(events, "RUN_FINISHED") :
          (\E j \in 1..(i - 1) : events[j].type = "TEXT_MESSAGE_START") =>
              Cardinality({ j \in EventsOfType(events, "TEXT_MESSAGE_END") : j < i }) = 1

\* C19: TEXT_MESSAGE_START is yielded exactly once for the message of a
\* stream that has text, and it precedes the first TEXT_MESSAGE_CONTENT; no
\* TEXT_MESSAGE_CONTENT is yielded without an earlier TEXT_MESSAGE_START.
C19_TextStartOnceBeforeFirstDelta ==
    /\ Cardinality(EventsOfType(events, "TEXT_MESSAGE_START")) <= 1
    /\ \A i \in EventsOfType(events, "TEXT_MESSAGE_CONTENT") :
          \E j \in 1..(i - 1) : events[j].type = "TEXT_MESSAGE_START"
    /\ \A j \in EventsOfType(events, "TEXT_MESSAGE_START") :
          j < Len(events) /\ events[j + 1].type = "TEXT_MESSAGE_CONTENT"

\* C19 witness: two text deltas with a tool call between them, one
\* TEXT_MESSAGE_START
C19_Witness ==
    /\ Cardinality(EventsOfType(events, "TEXT_MESSAGE_CONTENT")) = 2
    /\ Cardinality(EventsOfType(events, "TEXT_MESSAGE_START")) = 1
    /\ EventsOfType(events, "TOOL_CALL_START") # {}

\* C38: every TOOL_CALL_ARGS and every TOOL_CALL_END carries a non-empty
\* toolCallId and comes after the TOOL_CALL_START of that toolCallId; a call
\* has at most one TOOL_CALL_END, and none of its TOOL_CALL_ARGS follows it.
C38_ToolCallEventsFollowTheirStart ==
    /\ \A i \in EventsOfType(events, "TOOL_CALL_ARGS") \cup EventsOfType(events, "TOOL_CALL_END") :
          /\ events[i].toolCallId # ""
          /\ \E j \in 1..(i - 1) :
                /\ events[j].type = "TOOL_CALL_START"
                /\ events[j].toolCallId = events[i].toolCallId
    /\ \A i \in EventsOfType(events, "TOOL_CALL_END") :
          \A j \in (i + 1)..Len(events) :
              events[j].type \in {"TOOL_CALL_ARGS", "TOOL_CALL_END"}
                  => events[j].toolCallId # events[i].toolCallId

\* C39: when the vendor signals finish with stop, length or content_filter and
\* no tool call was assembled in the stream, the RUN_FINISHED yielded for that
\* chunk carries the vendor's reason unchanged.
C39_FinishReasonPassedThrough ==
    (JustFinished /\ Len(toolCallsInProgress) = 0
        /\ chunk.finish_reason \in {"stop", "length", "content_filter"})
    => events[Len(events)] = [type |-> "RUN_FINISHED", finishReason |-> chunk.finish_reason]

(***************************************************************************)
(* The devtools store: ai-store.ts keeps one conversation per client and   *)
(* sets its status in the handlers of the events that ChatClient and the   *)
(* server stream emit.  One client and the stream of its current run are   *)
(* modelled; an emit runs the store's handler for the event.  The emits    *)
(* of the server stream are not among the sources: they arrive in any      *)
(* order that starts with stream:started.                                  *)
(***************************************************************************)
ClientEvent(type) == [type |-> type, isLoading |-> FALSE, error |-> "null"]

\* chat-client.ts 83-87: the payload carries the new flag
LoadingChanged(loading) == [ClientEvent("client:loading-changed") EXCEPT !.isLoading = loading]

\* chat-client.ts 95-99: error?.message || null
ErrorChanged(err) ==
    [ClientEvent("client:error-changed") EXCEPT
        !.error = IF err = "undefined" THEN "null" ELSE err]

\* ai-store.ts 173-237: the handlers of the client's events; st is the
\* store, [status, linked]
OnClientEvent(st, ev) ==
    LET exists == st.status # "none" IN
    CASE ev.type = "client:created" ->
            IF exists THEN st ELSE [st EXCEPT !.status = "active"]
      [] ev.type = "client:message-sent" ->
            [st EXCEPT !.status = "active"]
      [] ev.type = "client:loading-changed" ->
            IF exists
            THEN [st EXCEPT !.status = IF ev.isLoading THEN "active" ELSE "completed"]
            ELSE st
      [] ev.type = "client:stopped" ->
            IF exists THEN [st EXCEPT !.status = "completed"] ELSE st
      [] OTHER -> st

\* ai-store.ts 888-894: the handler of client:error-changed does not read
\* e.payload.error
OnErrorChanged(st, ev) ==
    IF st.status # "none" THEN [st EXCEPT !.status = "error"] ELSE st

\* ai-store.ts 247-261, 390-425: the handlers of the stream's events, for
\* a stream that carries the client's id
OnStreamEvent(st, ev) ==
    CASE ev.type = "stream:started" ->
            IF st.status # "none"
            THEN [status |-> "active", linked |-> TRUE]
            ELSE st
      [] ev.type = "stream:chunk:error" ->
            IF st.linked THEN [st EXCEPT !.status = "error"] ELSE st
      [] ev.type = "stream:ended" ->
            IF st.linked THEN [st EXCEPT !.status = "completed"] ELSE st
      [] OTHER -> st

\* the listener registered for the event's type
Handle(st, ev) ==
    IF ev.type = "client:error-changed" THEN OnErrorChanged(st, ev)
    ELSE IF ev.type \in {"stream:started", "stream:chunk:error", "stream:ended"}
         THEN OnStreamEvent(st, ev)
         ELSE OnClientEvent(st, ev)

RECURSIVE HandleAll(_, _)
HandleAll(st, evs) ==
    IF evs = << >> THEN st ELSE HandleAll(Handle(st, Head(evs)), Tail(evs))

\* aiEventClient.emit, once for each event of evs, in order
Emit(evs) ==
    LET st == HandleAll([status |-> conversationStatus, linked |-> streamLinked], evs) IN
    /\ Len(emitted) + Len(evs) <= MaxEmitted
    /\ emitted' = emitted \o evs
    /\ conversationStatus' = st.status
    /\ streamLinked' = st.linked

\* the store is loaded, no client exists yet
DevtoolsInit ==
    /\ conversationStatus = "none"
    /\ streamLinked = FALSE
    /\ emitted = << >>
    /\ runPc = "none"
    /\ serverPc = "none"

\* chat-client.ts 36-61: the constructor
ClientCreated ==
    /\ runPc = "none"
    /\ runPc' = "idle"
    /\ Emit(<<ClientEvent("client:created")>>)
    /\ UNCHANGED <<serverPc, clientVars>>
    /\ UNCHANGED notDevtoolsVars

\* chat-client.ts 485-506, 436-449: sendMessage and append up to the first
\* await; one append at a time
SendMessageEmits ==
    /\ runPc = "idle"
    /\ ~isLoading
    /\ isLoading' = TRUE
    /\ error' = "undefined"
    /\ runPc' = "append"
    /\ serverPc' = "none"
    /\ Emit(<<ClientEvent("client:message-sent"), ClientEvent("client:message-appended"),
              LoadingChanged(TRUE), ErrorChanged("undefined")>>)
    /\ UNCHANGED <<messages, onToolCall, streams, connectCalls, toolExecs, cancelled>>
    /\ UNCHANGED notDevtoolsVars

\* chat-client.ts 451-472, 480-482: the stream ends, or the catch returns
\* on an AbortError; finally
AppendReturns ==
    /\ runPc = "append"
    /\ isLoading' = FALSE
    /\ runPc' = "idle"
    /\ Emit(<<LoadingChanged(FALSE)>>)
    /\ UNCHANGED <<serverPc, error, messages, onToolCall, streams, connectCalls,
                   toolExecs, cancelled>>
    /\ UNCHANGED notDevtoolsVars

\* chat-client.ts 473-482: the catch records the error; finally
AppendFails ==
    /\ runPc = "append"
    /\ error' = "Error"
    /\ isLoading' = FALSE
    /\ runPc' = "idle"
    /\ Emit(<<ErrorChanged("Error"), LoadingChanged(FALSE)>>)
    /\ UNCHANGED <<serverPc, messages, onToolCall, streams, connectCalls,
                   toolExecs, cancelled>>
    /\ UNCHANGED notDevtoolsVars

\* chat-client.ts 537-548: stop()
StopClient ==
    /\ runPc # "none"
    /\ isLoading' = FALSE
    /\ Emit(<<LoadingChanged(FALSE), ClientEvent("client:stopped")>>)
    /\ UNCHANGED <<runPc, serverPc, error, messages, onToolCall, streams,
                   connectCalls, toolExecs, cancelled>>
    /\ UNCHANGED notDevtoolsVars

\* the server answers the run's request: stream:started with the client's id
StreamStarted ==
    /\ runPc = "append"
    /\ serverPc = "none"
    /\ serverPc' = "started"
    /\ Emit(<<ClientEvent("stream:started")>>)
    /\ UNCHANGED <<runPc, clientVars>>
    /\ UNCHANGED notDevtoolsVars

\* the server stream yields an error chunk
StreamChunkError ==
    /\ serverPc = "started"
    /\ serverPc' = "errored"
    /\ Emit(<<ClientEvent("stream:chunk:error")>>)
    /\ UNCHANGED <<runPc, clientVars>>
    /\ UNCHANGED notDevtoolsVars

\* the server stream is over
StreamEnded ==
    /\ serverPc \in {"started", "errored"}
    /\ serverPc' = "ended"
    /\ Emit(<<ClientEvent("stream:ended")>>)
    /\ UNCHANGED <<runPc, clientVars>>
    /\ UNCHANGED notDevtoolsVars

DevtoolsNext ==
    \/ ClientCreated
    \/ SendMessageEmits
    \/ AppendReturns
    \/ AppendFails
    \/ StopClient
    \/ StreamStarted
    \/ StreamChunkError
    \/ StreamEnded

InitDevtools ==
    DevtoolsInit /\ ClientIdle /\ AdapterIdle /\ LoopIdle /\ LegacyOff /\ ResponseOff

SpecDevtools == InitDevtools /\ [][DevtoolsNext]_vars

\* the position in emitted where the most recent run began, 0 before the
\* first run
RunStart ==
    LET sent == { i \in 1..Len(emitted) : emitted[i].type = "client:message-sent" } IN
    IF sent = {} THEN 0 ELSE CHOOSE i \in sent : \A j \in sent : j <= i

\* the most recent run reported an error: an error chunk, or a client error
\* that is not empty
RunReportedError ==
    \E i \in (RunStart + 1)..Len(emitted) :
        \/ emitted[i].type = "stream:chunk:error"
        \/ emitted[i].type = "client:error-changed" /\ emitted[i].error # "null"

\* C40: a conversation of the devtools store has the status "error" exactly
\* when its most recent run reported an error (an error chunk or a client
\* error that is not empty): clearing the client's error at the start of a
\* send does not give the status "error", and a later loading-changed or
\* stream-ended does not take it away.
C40_ErrorStatusIffRunReportedError ==
    conversationStatus # "none" =>
        (conversationStatus = "error" <=> RunReportedError)

====
